---- MODULE Spec2Model ----
(***************************************************************************)
(* Model of the cloud-variable client of easy-chat-ce:                     *)
(*   - the write channel of src/lib/avatar.ts (XESCloudValue with a write  *)
(*     socket, a FIFO task queue and a single positional waiter);          *)
(*   - the enumeration walk fetchOnceData and the request coalescer        *)
(*     getAllNum with its TTL cache (src/lib/XesCloud.ts, identical in     *)
(*     src/lib/avatar.ts).                                                 *)
(*                                                                         *)
(* Execution is single-threaded and event-driven.  Every handler (socket   *)
(* event, timer, public call) is one atomic action.  The continuation of   *)
(* an await is a separate action (LoopResume); like a microtask it runs    *)
(* before any further socket or timer event (guard Quiescent), but public  *)
(* calls made by other continuations may run before it.                    *)
(***************************************************************************)
EXTENDS Integers, Sequences, FiniteSets, TLC

\* ---------------------------------------------------------------- bounds
MaxTasks == 2        \* write calls (send / sendBatch) accepted in one run
MaxWs == 2           \* write sockets dialed in one run
MaxLoops == 2        \* activations of processWriteQueue that can be represented
MaxPongs == 1        \* pings answered on one write socket
MaxThrown == 1       \* calls rejected with InvalidArgument in one run
MaxFetch == 2        \* enumerations (fetchOnceData calls) in one run
MaxWalks == 1        \* direct fetchOnceData calls in one run
MaxTicks == 2        \* clock ticks in one run
MaxCapacity == 2     \* largest memoryMaxSize / maxSize a cache is constructed with
MaxKeys == 3         \* keys given to an LRUCache
MaxLate == 2         \* events dispatched to a walk after it has settled
MaxPending == 2      \* calls of the hook in flight at one time

VARIABLES
    writeWs,                \* avatar.ts:310  socket id, 0 = null
    writeConnecting,        \* avatar.ts:311  socket id of the pending dial, 0 = null
    writeTaskQueue,         \* avatar.ts:312  sequence of task ids
    isProcessingQueue,      \* avatar.ts:317
    currentWriteResolver,   \* avatar.ts:318  the registered waiter, NoReq = null
    sock,                   \* the WebSocket objects created by ensureWriteConnection
    task,                   \* the completion handle of every enqueued task
    loop,                   \* the activations of processWriteQueue
    lastSet,                \* the last 'set' frame that reached the remote
    lastStarted,            \* the task whose task() was called last
    nextTask,               \* number of enqueueWriteTask calls so far + 1
    nextWs,                 \* number of sockets dialed so far + 1
    closePending,           \* socket whose error event ran and whose close event is due
    thrown,                 \* public calls that threw before doing anything
    globalCache,            \* XesCloud.ts:255  resource id -> TTL entry
    pendingRequests,        \* XesCloud.ts:256  resource id -> in-flight fetch, 0 = none
    fetch,                  \* the fetchOnceData invocations: socket, closure state, promise
    nextFetch,              \* number of fetchOnceData calls so far + 1
    now,                    \* Date.now(), in ticks of TickMs
    lastGet,                \* what the most recent getAllNum call returned
    lastStart,              \* resource id -> tick of the last enumeration getAllNum started
    clean,                  \* resource id -> no failure or invalidation since lastStart
    memoryCache,            \* XesCloud.ts:87   the LRUCache: cache, keys, config.maxSize
    cacheConfig,            \* XesCloud.ts:88   MessageCacheManager.config
    localStorage,           \* window.localStorage, shared by every cache and client
    lastOp,                 \* the last cache operation and what it returned
    hook                    \* useChatMessages: props, refs, state and the calls in flight

BatchDic == <<"k1", "k2">>        \* the keys of the mapping given to sendSomeNum
BatchKeys == Len(BatchDic)
TaskIds == 1..MaxTasks
WsIds == 1..MaxWs
LoopIds == 1..MaxLoops
Pids == {1, 2}       \* resource ids (project ids)
WPid == 1            \* projectId of the client instance whose write channel is modelled
NoEntry == [has |-> FALSE, timestamp |-> 0, by |-> 0]

NoReq == [l |-> 0, t |-> 0, k |-> 0]

CACHE_TTL == 2000                 \* milliseconds
TickMs == CACHE_TTL \div 2        \* the clock advances in steps of half a TTL
FetchIds == 1..MaxFetch
Names == {"A", "B", "C", "toString"}  \* names (payloads) the remote may push
\* `const result: Record<string, string> = {}` inherits from Object.prototype:
\* the keys the `in` operator finds in it before anything is recorded
\* (toString, constructor, hasOwnProperty, __proto__, ...; one is modelled).
ObjectProto == {"toString"}
Values == {"1", "2"}              \* values the remote may push
NoVal == "-"                      \* the name is not in the result object
EmptyResult == [n \in Names |-> NoVal]
NewFetch ==
    [st |-> "unused", pid |-> 0, via |-> "none", timer |-> FALSE, completed |-> FALSE,
     result |-> EmptyResult, outcome |-> "none", end |-> "none", rx |-> <<>>,
     wr |-> 0, ev |-> "none", tx |-> <<>>, late |-> <<>>, born |-> 0]
NoGet == [p |-> 0, how |-> "none", f |-> 0]

NewSock ==
    [state |-> "unused", timer |-> FALSE, promise |-> "none", unacked |-> <<>>,
     pings |-> 0, pongs |-> 0]
NewTask == [kind |-> "none", handle |-> "none", value |-> <<>>]
NoSet == [t |-> 0, k |-> 0, s |-> 0]
IdleLoop == [pc |-> "idle", t |-> 0, k |-> 0, conn |-> 0, got |-> "wait", results |-> <<>>]

\* The write-side state as one value, so that the code's statements compose.
WState ==
    [writeWs |-> writeWs, writeConnecting |-> writeConnecting,
     queue |-> writeTaskQueue, isProc |-> isProcessingQueue,
     cur |-> currentWriteResolver, sock |-> sock, task |-> task, loop |-> loop,
     lastSet |-> lastSet, lastStarted |-> lastStarted, nextWs |-> nextWs,
     nextTask |-> nextTask, thrown |-> thrown, closePending |-> closePending,
     gc |-> globalCache]

\* clean[p] is lost when the TTL entry of p is deleted.
CleanAfter(cl, old, new) == [p \in Pids |-> cl[p] /\ ~(old[p].has /\ ~new[p].has)]

Commit(W) ==
    /\ writeWs' = W.writeWs
    /\ writeConnecting' = W.writeConnecting
    /\ writeTaskQueue' = W.queue
    /\ isProcessingQueue' = W.isProc
    /\ currentWriteResolver' = W.cur
    /\ sock' = W.sock
    /\ task' = W.task
    /\ loop' = W.loop
    /\ lastSet' = W.lastSet
    /\ lastStarted' = W.lastStarted
    /\ nextWs' = W.nextWs
    /\ nextTask' = W.nextTask
    /\ thrown' = W.thrown
    /\ closePending' = W.closePending
    /\ globalCache' = W.gc
    /\ clean' = CleanAfter(clean, globalCache, W.gc)
    /\ UNCHANGED <<pendingRequests, fetch, nextFetch, now, lastGet, lastStart,
                   memoryCache, cacheConfig, localStorage, lastOp, hook>>

InSeq(x, s) == \E i \in 1..Len(s) : s[i] = x

\* Array.prototype.shift: removes the first element if there is one.
Shift(q) == IF q = <<>> THEN q ELSE Tail(q)

\* Promise resolve / reject of a task's completion handle: first settlement wins.
ResolveHandle(tk, t, v) ==
    IF tk[t].handle = "pending" THEN [tk EXCEPT ![t].handle = "resolved", ![t].value = v] ELSE tk

RejectHandle(tk, t) ==
    IF tk[t].handle = "pending" THEN [tk EXCEPT ![t].handle = "rejected"] ELSE tk

\* A socket that leaves OPEN delivers no further frame: the requests the remote
\* has not answered on it are forgotten.
SetState(sk, st) == [sk EXCEPT !.state = st, !.unacked = IF st = "open" THEN @ ELSE <<>>]

\* WebSocket.close(): CONNECTING and OPEN become CLOSING, the close event follows later.
CloseCall(sk) == IF sk.state \in {"connecting", "open"} THEN SetState(sk, "closing") ELSE sk

\* Map.prototype.delete on globalCache.
CacheDelete(gc, p) == [gc EXCEPT ![p] = NoEntry]

\* ------------------------------------------------ write channel (avatar.ts)

\* resolve / reject of the promise made by ensureWriteConnection for socket s:
\* wakes the activations awaiting it.
SettleConn(W, s, res) ==
    IF W.sock[s].promise # "pending" THEN W
    ELSE [W EXCEPT !.sock[s].promise = res,
                   !.loop = [i \in LoopIds |->
                       IF @[i].pc = "awaitConn" /\ @[i].conn = s /\ @[i].got = "wait"
                       THEN [@[i] EXCEPT !.got = IF res = "resolved" THEN "ws" ELSE "connErr"]
                       ELSE @[i]]]

\* resolver.resolve / resolver.reject / the doWrite timer: each settles the
\* doWrite promise only while the resolver is still the registered one, and
\* unregisters it.  g is the outcome handed to the awaiting task.
SettleWaiter(W, g) ==
    IF W.cur = NoReq THEN W
    ELSE [W EXCEPT !.loop[W.cur.l].got = g, !.cur = NoReq]

\* Faulty variant of DrainQueue: the queued tasks are left alone.
DrainQueueSkipped(W) == W

\* The queue drain at the end of cleanupWriteConnection.
DrainQueue(W) ==
    [W EXCEPT !.task = [t \in TaskIds |->
                          IF InSeq(t, W.queue) THEN RejectHandle(@, t)[t] ELSE @[t]],
              !.queue = <<>>]

cleanupWriteConnection(W) ==
    LET W1 == IF W.writeWs # 0
              THEN [W EXCEPT !.sock[W.writeWs] = CloseCall(@), !.writeWs = 0]
              ELSE W
        W2 == [W1 EXCEPT !.writeConnecting = 0]
        W3 == SettleWaiter(W2, "closed")
    IN DrainQueue(W3)

\* The synchronous part of ensureWriteConnection, called by activation i; the
\* activation then awaits the returned promise.
ensureWriteConnection(W, i) ==
    IF W.writeWs # 0 /\ W.sock[W.writeWs].state = "open"
    THEN [W EXCEPT !.loop[i].pc = "awaitConn", !.loop[i].conn = W.writeWs, !.loop[i].got = "ws"]
    ELSE IF W.writeConnecting # 0
    THEN [W EXCEPT !.loop[i].pc = "awaitConn", !.loop[i].conn = W.writeConnecting,
                   !.loop[i].got = CASE W.sock[W.writeConnecting].promise = "resolved" -> "ws"
                                     [] W.sock[W.writeConnecting].promise = "rejected" -> "connErr"
                                     [] OTHER -> "wait"]
    ELSE IF W.nextWs > MaxWs
    THEN [W EXCEPT !.nextWs = @ + 1]          \* no socket left in this run: the caller is disabled
    ELSE [W EXCEPT !.sock[W.nextWs] = [NewSock EXCEPT !.state = "connecting", !.timer = TRUE,
                                                      !.promise = "pending"],
                   !.writeConnecting = W.nextWs,
                   !.nextWs = @ + 1,
                   !.loop[i].pc = "awaitConn", !.loop[i].conn = W.nextWs, !.loop[i].got = "wait"]

\* doWrite after its await: register the waiter, arm its timer, send the frame.
doWriteSend(W, i) ==
    LET lp == W.loop[i]
        s == lp.conn
        req == [l |-> i, t |-> lp.t, k |-> lp.k]
    IN  IF W.cur # NoReq
        THEN [W EXCEPT !.loop[i].pc = "awaitAck", !.loop[i].got = "busy"]
        ELSE IF W.sock[s].state = "connecting"     \* ws.send throws
        THEN [W EXCEPT !.loop[i].pc = "awaitAck", !.loop[i].got = "sendErr"]
        ELSE IF W.sock[s].state = "open"
        THEN [W EXCEPT !.cur = req, !.loop[i].pc = "awaitAck", !.loop[i].got = "wait",
                       !.lastSet = [t |-> lp.t, k |-> lp.k, s |-> s],
                       !.sock[s].unacked = Append(@, req)]
        ELSE [W EXCEPT !.cur = req, !.loop[i].pc = "awaitAck", !.loop[i].got = "wait"]

\* processWriteQueue, lines 434-442: the settled task is shifted off the queue
\* and its handle resolved or rejected.
finishTask(W, i, ok, val) ==
    LET t == W.loop[i].t
    IN  [W EXCEPT !.queue = Shift(@),
                  !.task = IF ok THEN ResolveHandle(@, t, val) ELSE RejectHandle(@, t)]

\* processWriteQueue, lines 430-434: take the head, call its task, which calls
\* doWrite, which calls ensureWriteConnection and awaits.
QueueHead(q) == Head(q)

startTask(W, i) ==
    LET t == QueueHead(W.queue)
    IN  ensureWriteConnection(
            [W EXCEPT !.loop[i] = [IdleLoop EXCEPT !.t = t, !.k = 1],
                      !.lastStarted = t], i)

\* processWriteQueue, lines 429 and 445.
loopNext(W, i) ==
    IF W.queue # <<>> THEN startTask(W, i)
    ELSE [W EXCEPT !.isProc = FALSE, !.loop[i] = IdleLoop]

\* The continuation of a task closure when its doWrite has settled with lp.got.
\* send: 'success' on an OK ack, a throw otherwise.  batch: one result per key,
\* stop on a wait-for-ack timeout or when the overall time is used up.
taskStep(W, i, expired) ==
    LET lp == W.loop[i]
        g == lp.got
    IN  IF W.task[lp.t].kind = "send"
        THEN loopNext(finishTask(W, i, g = "ackOK", <<"success">>), i)
        ELSE LET res == Append(lp.results, IF g = "ackOK" THEN "success" ELSE "fail")
             IN  IF g = "timeout" \/ expired \/ lp.k >= BatchKeys
                 THEN loopNext(finishTask(W, i, TRUE, res), i)
                 ELSE ensureWriteConnection(
                          [W EXCEPT !.loop[i].k = @ + 1, !.loop[i].results = res], i)

\* Faulty variant of LoopGuard: the isProcessingQueue test is missing.
LoopGuardNoFlag(W) == W.queue = <<>>

\* processWriteQueue, line 424: the re-entrancy guard.
LoopGuard(W) == W.isProc \/ W.queue = <<>>

FreeLoops(W) == {i \in LoopIds : W.loop[i].pc = "idle"}

processWriteQueue(W) ==
    IF LoopGuard(W) \/ FreeLoops(W) = {} THEN W
    ELSE startTask([W EXCEPT !.isProc = TRUE],
                   CHOOSE i \in FreeLoops(W) : \A j \in FreeLoops(W) : i <= j)

\* Faulty variant of QueuePush: the task is put at the front (unshift).
QueueUnshift(q, t) == <<t>> \o q

\* enqueueWriteTask, line 415: Array.prototype.push.
QueuePush(q, t) == Append(q, t)

enqueueWriteTask(W, kind) ==
    processWriteQueue(
        [W EXCEPT !.task[W.nextTask] = [NewTask EXCEPT !.kind = kind, !.handle = "pending"],
                  !.queue = QueuePush(@, W.nextTask),
                  !.nextTask = @ + 1])

\* Faulty variant of sendNum: the TTL entry is deleted before num is validated.
sendNumDeletesFirst(W, num) ==
    IF num = "" THEN [W EXCEPT !.gc = CacheDelete(@, WPid), !.thrown = @ + 1]
    ELSE enqueueWriteTask([W EXCEPT !.gc = CacheDelete(@, WPid)], "send")

\* sendNum, lines 509-530 (the task closure itself is taskStep).
sendNum(W, num) ==
    IF num = "" THEN [W EXCEPT !.thrown = @ + 1]
    ELSE enqueueWriteTask([W EXCEPT !.gc = CacheDelete(@, WPid)], "send")

\* sendSomeNum, lines 633-644; n is the number of keys of dic.
sendSomeNum(W, n) ==
    IF n = 0 THEN [W EXCEPT !.thrown = @ + 1]
    ELSE enqueueWriteTask([W EXCEPT !.gc = CacheDelete(@, WPid)], "batch")

\* ------------------------------------- enumeration walk (fetchOnceData)

\* ws.close() on the private socket of a fetch.  The code calls it only after
\* setting completed, so the error and close events that follow find every
\* handler a no-op: the socket is taken as closed from the call on.
FetchCloseCall(st) == IF st \in {"connecting", "open"} THEN "closed" ELSE st

\* resolve(result) / reject(error) of the promise fetchOnceData returned.
FetchResolve(F, why) == [F EXCEPT !.outcome = "resolved", !.end = why]

FetchReject(F, why) == [F EXCEPT !.outcome = "rejected", !.end = why]

\* History: the handler of event ev ran and sent the frames tx.
Handled(F, ev, tx) == [F EXCEPT !.ev = ev, !.tx = tx]

\* Faulty variant of fetchTimeout: the timeout is reported as a failure.
fetchTimeoutRejects(F) ==
    IF ~F.completed
    THEN FetchReject(Handled([F EXCEPT !.timer = FALSE, !.completed = TRUE,
                                       !.st = FetchCloseCall(@)], "timeout", <<>>),
                     "timeout")
    ELSE [F EXCEPT !.timer = FALSE]

\* Faulty variant of fetchTimeout: the callback does nothing.
fetchTimeoutIgnored(F) == [F EXCEPT !.timer = FALSE]

\* The timeout callback (lines 371-377).
fetchTimeout(F) ==
    IF ~F.completed
    THEN FetchResolve(Handled([F EXCEPT !.timer = FALSE, !.completed = TRUE,
                                       !.st = FetchCloseCall(@)], "timeout", <<>>),
                      "timeout")
    ELSE [F EXCEPT !.timer = FALSE]

\* ws.onopen (lines 379-385).
fetchOnOpen(F) ==
    IF F.completed THEN Handled([F EXCEPT !.st = FetchCloseCall("open")], "open", <<>>)
    ELSE Handled([F EXCEPT !.st = "open"], "open", <<"handshake">>)

\* `name in result` (line 407): own keys and inherited ones.
NameInResult(name, result) == result[name] # NoVal \/ name \in ObjectProto

\* The branch of ws.onmessage for a {name, value} pair (lines 403-416).
fetchOnPair(F, m) ==
    IF NameInResult(m.name, F.result)
    THEN FetchResolve(Handled([F EXCEPT !.completed = TRUE, !.timer = FALSE,
                                        !.st = FetchCloseCall(@)], "pair", <<>>),
                      "dup")
    ELSE Handled([F EXCEPT !.result[m.name] = m.value,
                           !.wr = nextTask],     \* history: the write calls made so far, plus one
                 "pair", <<"handshake">>)

\* Faulty variant of fetchOnMessage: the completed test of line 388 is missing.
fetchOnMessageUnguarded(F, m) ==
    IF m.kind = "ping" THEN Handled(F, "ping", <<"pong">>)
    ELSE IF m.kind = "ack" THEN Handled(F, "ack", <<"handshake">>)
    ELSE IF m.kind = "pair" THEN fetchOnPair([F EXCEPT !.rx = Append(@, m)], m)
    ELSE Handled(F, m.kind, <<>>)

\* ws.onmessage (lines 387-420).  rx is the history of the pairs it handled.
fetchOnMessage(F, m) ==
    IF F.completed THEN F
    ELSE IF m.kind = "ping" THEN Handled(F, "ping", <<"pong">>)
    ELSE IF m.kind = "ack" THEN Handled(F, "ack", <<"handshake">>)
    ELSE IF m.kind = "pair" THEN fetchOnPair([F EXCEPT !.rx = Append(@, m)], m)
    ELSE Handled(F, m.kind, <<>>)      \* anything else is ignored

\* ws.onerror (lines 422-428).
fetchOnError(F) ==
    IF ~F.completed
    THEN FetchReject(Handled([F EXCEPT !.completed = TRUE, !.timer = FALSE], "error", <<>>),
                     "error")
    ELSE F

\* Faulty variant of fetchOnClose: a close is reported as a failure.
fetchOnCloseRejects(F) ==
    IF ~F.completed
    THEN FetchReject(Handled([F EXCEPT !.completed = TRUE, !.timer = FALSE], "close", <<>>),
                     "close")
    ELSE F

\* ws.onclose (lines 430-436).
fetchOnClose(F) ==
    IF ~F.completed
    THEN FetchResolve(Handled([F EXCEPT !.completed = TRUE, !.timer = FALSE], "close", <<>>),
                      "close")
    ELSE F

\* useChatMessages before its first render: no room, no client, no interval,
\* an empty list, nothing in flight.
NewHook == [chatId |-> 0, xRef |-> 0, pollingRef |-> 0, messages |-> "-", calls |-> {}]

\* The synchronous part of fetchOnceData (lines 366-377): a new socket, an
\* empty result, the timer armed.
fetchOnceData(p, via) ==
    [NewFetch EXCEPT !.st = "connecting", !.pid = p, !.via = via, !.timer = TRUE,
                     !.outcome = "pending",
                     !.born = nextTask]      \* history: the write calls made so far, plus one

\* ------------------------------------- request coalescer (getAllNum)

Now == now * TickMs

\* getAllNum, line 341.
CacheFresh(e, t) == e.has /\ t - e.timestamp < CACHE_TTL

\* The read-side state as one value.
RState ==
    [gc |-> globalCache, pend |-> pendingRequests, fetch |-> fetch, nextFetch |-> nextFetch,
     lastGet |-> lastGet, lastStart |-> lastStart, clean |-> clean]

CommitR(R) ==
    /\ globalCache' = R.gc
    /\ pendingRequests' = R.pend
    /\ fetch' = R.fetch
    /\ nextFetch' = R.nextFetch
    /\ lastGet' = R.lastGet
    /\ lastStart' = R.lastStart
    /\ clean' = CleanAfter(R.clean, globalCache, R.gc)
    /\ UNCHANGED <<writeWs, writeConnecting, writeTaskQueue, isProcessingQueue,
                   currentWriteResolver, sock, task, loop, lastSet, lastStarted,
                   nextTask, nextWs, closePending, thrown,
                   memoryCache, cacheConfig, lastOp, hook>>

\* Faulty variant of getAllNum: the in-flight fetch is not looked up.
getAllNumNoJoin(R, p, t) ==
    IF CacheFresh(R.gc[p], t)
    THEN [R EXCEPT !.lastGet = [p |-> p, how |-> "cache", f |-> R.gc[p].by]]
    ELSE [R EXCEPT !.fetch[R.nextFetch] = fetchOnceData(p, "getAll"),
                   !.pend[p] = R.nextFetch,
                   !.nextFetch = @ + 1,
                   !.lastGet = [p |-> p, how |-> "started", f |-> R.nextFetch],
                   !.lastStart[p] = t,
                   !.clean[p] = TRUE]

\* getAllNum, lines 339-363, up to its return.
getAllNum(R, p, t) ==
    IF CacheFresh(R.gc[p], t)
    THEN [R EXCEPT !.lastGet = [p |-> p, how |-> "cache", f |-> R.gc[p].by]]
    ELSE IF R.pend[p] # 0
    THEN [R EXCEPT !.lastGet = [p |-> p, how |-> "joined", f |-> R.pend[p]]]
    ELSE [R EXCEPT !.fetch[R.nextFetch] = fetchOnceData(p, "getAll"),
                   !.pend[p] = R.nextFetch,
                   !.nextFetch = @ + 1,
                   !.lastGet = [p |-> p, how |-> "started", f |-> R.nextFetch],
                   !.lastStart[p] = t,
                   !.clean[p] = TRUE]

\* Faulty variant of getAllSettled: a failure leaves the in-flight marker.
getAllSettledKeepsMarker(R, f, t) ==
    LET F == R.fetch[f]
    IN  IF F.via # "getAll" THEN R
        ELSE IF F.outcome = "resolved"
        THEN [R EXCEPT !.gc[F.pid] = [has |-> TRUE, timestamp |-> t, by |-> f],
                       !.pend[F.pid] = 0]
        ELSE [R EXCEPT !.clean[F.pid] = FALSE]

\* Faulty variant of getAllSettled: success does not populate the TTL cache.
getAllSettledNoCache(R, f, t) ==
    LET F == R.fetch[f]
    IN  IF F.via # "getAll" THEN R
        ELSE IF F.outcome = "resolved"
        THEN [R EXCEPT !.pend[F.pid] = 0]
        ELSE [R EXCEPT !.pend[F.pid] = 0, !.clean[F.pid] = FALSE]

\* The .then / .catch callbacks getAllNum chained to the fetch (lines 351-359),
\* run when fetch f has settled in this handler.
getAllSettled(R, f, t) ==
    LET F == R.fetch[f]
    IN  IF F.via # "getAll" THEN R
        ELSE IF F.outcome = "resolved"
        THEN [R EXCEPT !.gc[F.pid] = [has |-> TRUE, timestamp |-> t, by |-> f],
                       !.pend[F.pid] = 0]
        ELSE [R EXCEPT !.pend[F.pid] = 0, !.clean[F.pid] = FALSE]

\* A handler of fetch f turned its record into F2.
FetchStep(R, f, F2, t) ==
    LET R2 == [R EXCEPT !.fetch[f] = F2]
    IN  IF R.fetch[f].outcome = "pending" /\ F2.outcome # "pending"
        THEN getAllSettled(R2, f, t)
        ELSE R2

\* clearCache (line 549) and sendNum / sendSomeNum (lines 280, 448): the TTL
\* entry of the instance's resource id is deleted.  (clearCache also clears
\* the id in the client's own message cache: see ClearCache.)
clearCache(R, p) == [R EXCEPT !.gc = CacheDelete(@, p)]

\* clearAllCache (line 554).
clearAllCache(R) == [R EXCEPT !.gc = [q \in Pids |-> NoEntry]]

\* ------------------------------------- LRUCache (XesCloud.ts:11-66)

LruKeys == 1..MaxKeys             \* keys given to an LRUCache
Datas == {"x", "y"}               \* cached contents
NoData == "-"                     \* undefined: Map.get of an absent key
Null == "null"                    \* null: what the manager returns for absent

\* new LRUCache({ maxSize: n }).
NewLRU(n) == [cache |-> [k \in LruKeys |-> NoData], keys |-> <<>>, maxSize |-> n]

\* Array.prototype.indexOf, 1-based; 0 stands for -1.
IndexOf(s, k) ==
    IF \E i \in 1..Len(s) : s[i] = k
    THEN CHOOSE i \in 1..Len(s) : s[i] = k /\ \A j \in 1..(i - 1) : s[j] # k
    ELSE 0

\* Array.prototype.splice(i, 1).
Splice(s, i) == SubSeq(s, 1, i - 1) \o SubSeq(s, i + 1, Len(s))

LRUHas(L, k) == L.cache[k] # NoData

\* LRUCache.get (lines 20-30): the cache afterwards and the value returned.
LRUGet(L, k) ==
    IF ~LRUHas(L, k) THEN [lru |-> L, ret |-> NoData]
    ELSE LET i == IndexOf(L.keys, k)
         IN  [lru |-> IF i > 0 THEN [L EXCEPT !.keys = Append(Splice(@, i), k)] ELSE L,
              ret |-> L.cache[k]]

\* Faulty variant of LRUEvict: the most recently used key is evicted.
LRUEvictNewest(L) ==
    IF L.keys = <<>> THEN L
    ELSE [L EXCEPT !.keys = SubSeq(@, 1, Len(@) - 1), !.cache[L.keys[Len(L.keys)]] = NoData]

\* LRUCache.set, lines 39-42: keys.shift() and the delete of what it returned.
LRUEvict(L) ==
    IF L.keys = <<>> THEN L
    ELSE [L EXCEPT !.keys = Tail(@), !.cache[Head(L.keys)] = NoData]

\* LRUCache.set (lines 32-48).
LRUSet(L, k, v) ==
    LET i == IndexOf(L.keys, k)
        L1 == IF LRUHas(L, k)
              THEN IF i > 0 THEN [L EXCEPT !.keys = Splice(@, i)] ELSE L
              ELSE IF Len(L.keys) >= L.maxSize THEN LRUEvict(L) ELSE L
    IN  [L1 EXCEPT !.cache[k] = v, !.keys = Append(@, k)]

\* LRUCache.delete (lines 54-60).
LRUDelete(L, k) ==
    LET i == IndexOf(L.keys, k)
    IN  [L EXCEPT !.keys = IF i > 0 THEN Splice(@, i) ELSE @, !.cache[k] = NoData]

\* LRUCache.clear (lines 62-65).
LRUClear(L) == [L EXCEPT !.cache = [k \in LruKeys |-> NoData], !.keys = <<>>]

\* ------------------------------------- MessageCacheManager (XesCloud.ts:86-230)

isBrowser == TRUE                 \* the code runs in a browser: window is defined
STORAGE_PREFIX == "msg_cache_"
Version == 1                      \* DEFAULT_MESSAGE_CACHE_CONFIG.version
OtherVersion == Version + 1       \* the version of a cache of another release
Expiry == TickMs                  \* the configured localStorageExpiry, in milliseconds
Capacities == 0..MaxCapacity

\* { ...DEFAULT_MESSAGE_CACHE_CONFIG, ...config } with memoryMaxSize n.
Config(n) == [memoryMaxSize |-> n, localStorageExpiry |-> Expiry, version |-> Version]

\* What localStorage holds under a key: nothing, the JSON text of an entry, or
\* a text JSON.parse rejects.
Absent == [kind |-> "absent", data |-> NoData, timestamp |-> 0, version |-> 0]
Garbage == [kind |-> "garbage", data |-> NoData, timestamp |-> 0, version |-> 0]

\* JSON.stringify(entry) for entry = {data, timestamp, version}.
Stringify(d, t, v) == [kind |-> "entry", data |-> d, timestamp |-> t, version |-> v]

\* JSON.parse(stored) returns (does not throw).
Parses(st) == st.kind = "entry"

\* localStorage.removeItem(STORAGE_PREFIX + id).
StorageRemove(ls, id) == [ls EXCEPT !.msg[id] = Absent]

\* Remove every key that starts with STORAGE_PREFIX (clearAll, lines 131-138).
StorageRemovePrefixed(ls) == [ls EXCEPT !.msg = [id \in Pids |-> Absent]]

\* getCacheKey (lines 227-229): String(chatId), one-to-one on the chat ids.
getCacheKey(id) == id

\* The manager with the storage it works on, as one value.
CState == [mem |-> memoryCache, ls |-> localStorage, cfg |-> cacheConfig]

\* getFromMemory (lines 144-150).
getFromMemory(C, id) ==
    IF LRUHas(C.mem, getCacheKey(id))
    THEN LET g == LRUGet(C.mem, getCacheKey(id))
         IN  [c |-> [C EXCEPT !.mem = g.lru], ret |-> IF g.ret = NoData THEN Null ELSE g.ret]
    ELSE [c |-> C, ret |-> Null]

\* Faulty variant of StorageExpired: an entry whose age equals the expiry is dropped.
StorageExpiredAtExpiry(st, cfg, t) == t - st.timestamp >= cfg.localStorageExpiry

\* getFromLocalStorage, line 166.
StorageExpired(st, cfg, t) == t - st.timestamp > cfg.localStorageExpiry

\* Faulty variant of VersionMismatch: the version is not looked at.
VersionIgnored(st, cfg) == FALSE

\* getFromLocalStorage, line 161.
VersionMismatch(st, cfg) == st.version # cfg.version

\* getFromLocalStorage (lines 152-175).
getFromLocalStorage(C, id, t) ==
    LET stored == C.ls.msg[id]
    IN  IF ~isBrowser \/ stored.kind = "absent" \/ ~Parses(stored)
        THEN [c |-> C, ret |-> Null]
        ELSE IF VersionMismatch(stored, C.cfg) \/ StorageExpired(stored, C.cfg, t)
        THEN [c |-> [C EXCEPT !.ls = StorageRemove(@, id)], ret |-> Null]
        ELSE [c |-> C, ret |-> stored.data]

\* setToMemory (lines 177-180).
setToMemory(C, id, messages) == [C EXCEPT !.mem = LRUSet(@, getCacheKey(id), messages)]

\* setToLocalStorage (lines 182-195).
setToLocalStorage(C, id, messages, t) ==
    IF ~isBrowser THEN C
    ELSE [C EXCEPT !.ls.msg[id] = Stringify(messages, t, C.cfg.version)]

\* Faulty variant of cacheGet: the persisted tier is asked first.
cacheGetStorageFirst(C, id, t) ==
    LET l == getFromLocalStorage(C, id, t)
        m == getFromMemory(l.c, id)
    IN  IF l.ret # Null
        THEN [c |-> setToMemory(l.c, id, l.ret), ret |-> l.ret, read |-> TRUE]
        ELSE [c |-> m.c, ret |-> m.ret, read |-> TRUE]

\* Faulty variant of cacheGet: a persisted hit is returned but not promoted.
cacheGetNoPromote(C, id, t) ==
    LET m == getFromMemory(C, id)
        l == getFromLocalStorage(m.c, id, t)
    IN  IF m.ret # Null THEN [c |-> m.c, ret |-> m.ret, read |-> FALSE]
        ELSE [c |-> l.c, ret |-> l.ret, read |-> TRUE]

\* MessageCacheManager.get (lines 99-110); read: the persisted tier was read.
cacheGet(C, id, t) ==
    LET m == getFromMemory(C, id)
        l == getFromLocalStorage(m.c, id, t)
    IN  IF m.ret # Null THEN [c |-> m.c, ret |-> m.ret, read |-> FALSE]
        ELSE IF l.ret # Null
        THEN [c |-> setToMemory(l.c, id, l.ret), ret |-> l.ret, read |-> TRUE]
        ELSE [c |-> l.c, ret |-> Null, read |-> TRUE]

\* MessageCacheManager.set (lines 112-115).
cacheSet(C, id, messages, t) == setToLocalStorage(setToMemory(C, id, messages), id, messages, t)

\* Faulty variant of cacheClear: only the memory tier is cleared.
cacheClearMemoryOnly(C, id) == [C EXCEPT !.mem = LRUDelete(@, getCacheKey(id))]

\* MessageCacheManager.clear (lines 117-125).
cacheClear(C, id) ==
    LET C1 == [C EXCEPT !.mem = LRUDelete(@, getCacheKey(id))]
    IN  IF ~isBrowser THEN C1 ELSE [C1 EXCEPT !.ls = StorageRemove(@, id)]

\* MessageCacheManager.clearAll (lines 127-142).
cacheClearAll(C) ==
    LET C1 == [C EXCEPT !.mem = LRUClear(@)]
    IN  IF ~isBrowser THEN C1 ELSE [C1 EXCEPT !.ls = StorageRemovePrefixed(@)]

\* Faulty variant of cleanupExpiredEntries: an entry that does not parse is
\* skipped instead of removed.
cleanupKeepsUnparsed(ls, cfg, t) ==
    [ls EXCEPT !.msg = [id \in Pids |->
        IF @[id].kind = "absent" \/ ~Parses(@[id]) THEN @[id]
        ELSE IF VersionMismatch(@[id], cfg) \/ StorageExpired(@[id], cfg, t)
        THEN Absent
        ELSE @[id]]]

\* cleanupExpiredEntries (lines 197-225).
cleanupExpiredEntries(ls, cfg, t) ==
    [ls EXCEPT !.msg = [id \in Pids |->
        IF @[id].kind = "absent" THEN @[id]
        ELSE IF ~Parses(@[id]) \/ VersionMismatch(@[id], cfg) \/ StorageExpired(@[id], cfg, t)
        THEN Absent
        ELSE @[id]]]

\* new MessageCacheManager(config) (lines 91-97).
newManager(ls, cfg, t) ==
    [mem |-> NewLRU(cfg.memoryMaxSize),
     ls |-> IF isBrowser THEN cleanupExpiredEntries(ls, cfg, t) ELSE ls,
     cfg |-> cfg]

\* ----------------------------------------------------- scheduling guards

\* An activation whose awaited promise has settled: its continuation is due.
Runnable(i) == loop[i].pc # "idle" /\ loop[i].got # "wait"

\* No continuation is due and no close event is owed: the next event may run.
Quiescent == closePending = 0 /\ \A i \in LoopIds : ~Runnable(i)

\* The step is possible within the sockets of this run.
Fits(W) == W.nextWs <= MaxWs + 1

\* ------------------------------------------------------- write actions

\* A caller invokes sendNum(name, num).
SendNum(num) ==
    /\ IF num = "" THEN thrown < MaxThrown ELSE nextTask <= MaxTasks
    /\ LET W == sendNum(WState, num)
       IN  Fits(W) /\ Commit(W)

\* A caller invokes sendSomeNum(dic) with n keys.
SendSomeNum(n) ==
    /\ IF n = 0 THEN thrown < MaxThrown ELSE nextTask <= MaxTasks
    /\ LET W == sendSomeNum(WState, n)
       IN  Fits(W) /\ Commit(W)

\* The continuation of activation i after its await.
LoopResume(i) ==
    /\ Runnable(i)
    /\ \E expired \in BOOLEAN :
          LET W == IF loop[i].pc = "awaitConn" /\ loop[i].got = "ws"
                   THEN doWriteSend(WState, i)
                   ELSE taskStep(WState, i, expired)
          IN  Fits(W) /\ Commit(W)

\* ws.onopen of write socket s (lines 348-353).
OnOpen(s) ==
    /\ Quiescent
    /\ sock[s].state = "connecting"
    /\ Commit(SettleConn([WState EXCEPT !.sock[s].state = "open", !.sock[s].timer = FALSE,
                                        !.writeWs = s, !.writeConnecting = 0],
                         s, "resolved"))

\* The connect timer of socket s fires (lines 343-346).
ConnTimeout(s) ==
    /\ Quiescent
    /\ sock[s].timer
    /\ Commit(cleanupWriteConnection(
                  SettleConn([WState EXCEPT !.sock[s].timer = FALSE], s, "rejected")))

\* The connection of socket s fails: readyState becomes CLOSED, ws.onerror runs
\* (lines 373-377); the close event follows once the continuations have run.
OnError(s) ==
    /\ Quiescent
    /\ sock[s].state \in {"connecting", "open"}
    /\ Commit(cleanupWriteConnection(
                  SettleConn([WState EXCEPT !.sock[s] = SetState(@, "closed"),
                                            !.sock[s].timer = FALSE, !.closePending = s],
                             s, "rejected")))

\* ws.onclose of socket s (lines 379-381): after an error, or when a closing
\* handshake (started by close() or by the remote) has finished.
OnClose(s) ==
    /\ \A i \in LoopIds : ~Runnable(i)
    /\ IF closePending # 0 THEN closePending = s ELSE sock[s].state = "closing"
    /\ Commit(cleanupWriteConnection([WState EXCEPT !.sock[s] = SetState(@, "closed"),
                                                    !.closePending = 0]))

\* The remote starts the closing handshake on s: readyState becomes CLOSING.
ServerClosing(s) ==
    /\ Quiescent
    /\ sock[s].state = "open"
    /\ Commit([WState EXCEPT !.sock[s] = SetState(@, "closing")])

\* What the waiter makes of a frame that is not a ping (lines 468-484), as the
\* task closure then reads it (response.reply === 'OK').
FrameOutcome(f) ==
    CASE f = "ackOK" -> "ackOK"
      [] f = "ackFail" -> "ackFail"
      [] OTHER -> "unexpected"

\* Faulty variant of onWriteMessage: the return after the pong is missing, so
\* the ping is also handed to the waiter.
onWriteMessagePingForwarded(W, s, f) ==
    IF f = "ping"
    THEN SettleWaiter([W EXCEPT !.sock[s].pings = @ + 1, !.sock[s].pongs = @ + 1],
                      FrameOutcome(f))
    ELSE SettleWaiter(W, FrameOutcome(f))

\* ws.onmessage of write socket s (lines 355-371).
onWriteMessage(W, s, f) ==
    IF f = "ping" THEN [W EXCEPT !.sock[s].pings = @ + 1, !.sock[s].pongs = @ + 1]
    ELSE SettleWaiter(W, FrameOutcome(f))

\* The remote answers the oldest unanswered 'set' on s with an ack.
RemoteAck(s, f) ==
    /\ Quiescent
    /\ sock[s].state = "open"
    /\ sock[s].unacked # <<>>
    /\ Commit(onWriteMessage([WState EXCEPT !.sock[s].unacked = Tail(@)], s, f))

\* The remote sends a frame nobody asked for: a ping, a frame of another
\* shape ("other") or one that does not parse ("garbage").
RemoteFrame(s, f) ==
    /\ Quiescent
    /\ sock[s].state = "open"
    /\ f = "ping" => sock[s].pings < MaxPongs
    /\ Commit(onWriteMessage(WState, s, f))

\* History: the request of the registered waiter, if the remote still owes its
\* ack, is marked (l = 0) as one whose wait has timed out.  The timer callback
\* (lines 461-466) leaves the socket as it is.
TimedOut(W) ==
    [W EXCEPT !.sock = [s \in WsIds |->
        [W.sock[s] EXCEPT !.unacked =
            [j \in 1..Len(W.sock[s].unacked) |->
                IF W.sock[s].unacked[j] = W.cur
                THEN [W.sock[s].unacked[j] EXCEPT !.l = 0]
                ELSE W.sock[s].unacked[j]]]]]

\* The wait-for-ack timer of the registered waiter fires (lines 461-466).
AckTimeout ==
    /\ Quiescent
    /\ currentWriteResolver # NoReq
    /\ Commit(SettleWaiter(TimedOut(WState), "timeout"))

InitWrite ==
    /\ writeWs = 0
    /\ writeConnecting = 0
    /\ writeTaskQueue = <<>>
    /\ isProcessingQueue = FALSE
    /\ currentWriteResolver = NoReq
    /\ sock = [s \in WsIds |-> NewSock]
    /\ task = [t \in TaskIds |-> NewTask]
    /\ loop = [i \in LoopIds |-> IdleLoop]
    /\ lastSet = NoSet
    /\ lastStarted = 0
    /\ nextTask = 1
    /\ nextWs = 1
    /\ closePending = 0
    /\ thrown = 0

InitRead ==
    /\ globalCache = [p \in Pids |-> NoEntry]
    /\ pendingRequests = [p \in Pids |-> 0]
    /\ fetch = [f \in FetchIds |-> NewFetch]
    /\ nextFetch = 1
    /\ now = 0
    /\ lastGet = NoGet
    /\ lastStart = [p \in Pids |-> 0]
    /\ clean = [p \in Pids |-> FALSE]

NoOp == [op |-> "none", id |-> 0, ret |-> Null, read |-> FALSE, afterSet |-> FALSE,
         was |-> "none", uses |-> <<>>]

\* A manager constructed with the largest capacity over an empty localStorage
\* that holds one key of another component ('username').
InitCache ==
    /\ memoryCache = NewLRU(MaxCapacity)
    /\ cacheConfig = Config(MaxCapacity)
    /\ localStorage = [msg |-> [id \in Pids |-> Absent], other |-> "u"]
    /\ lastOp = NoOp
    /\ hook = NewHook

Init == InitWrite /\ InitRead /\ InitCache

vars == <<writeWs, writeConnecting, writeTaskQueue, isProcessingQueue,
          currentWriteResolver, sock, task, loop, lastSet, lastStarted, nextTask,
          nextWs, closePending, thrown, globalCache, pendingRequests, fetch,
          nextFetch, now, lastGet, lastStart, clean,
          memoryCache, cacheConfig, localStorage, lastOp, hook>>

\* -------------------------------------------------------- read actions

\* A caller invokes getAllNum on an instance for resource id p.
GetAllNum(p) ==
    /\ CacheFresh(globalCache[p], Now) \/ pendingRequests[p] # 0 \/ nextFetch <= MaxFetch
    /\ CommitR(getAllNum(RState, p, Now))
    /\ UNCHANGED <<now, localStorage>>

\* A caller invokes fetchOnceData directly on an instance for resource id p.
FetchOnceData(p) ==
    /\ nextFetch <= MaxWalks
    /\ \A f \in FetchIds : fetch[f].outcome # "pending"     \* one walk at a time
    /\ CommitR([RState EXCEPT !.fetch[nextFetch] = fetchOnceData(p, "direct"),
                              !.nextFetch = @ + 1])
    /\ UNCHANGED <<now, localStorage>>

\* The socket of fetch f opens.
FetchOpen(f) ==
    /\ fetch[f].st = "connecting"
    /\ CommitR(FetchStep(RState, f, fetchOnOpen(fetch[f]), Now))
    /\ UNCHANGED <<now, localStorage>>

\* The remote sends frame m on the socket of fetch f.
FetchMessage(f, m) ==
    /\ fetch[f].st = "open"
    /\ CommitR(FetchStep(RState, f, fetchOnMessage(fetch[f], m), Now))
    /\ UNCHANGED <<now, localStorage>>

\* The connection of fetch f fails: the error event, then the close event.
FetchError(f) ==
    /\ fetch[f].st \in {"connecting", "open"}
    /\ CommitR(FetchStep(RState, f,
                         fetchOnClose(fetchOnError([fetch[f] EXCEPT !.st = "closed"])), Now))
    /\ UNCHANGED <<now, localStorage>>

\* The remote closes the socket of fetch f without an error.
FetchClose(f) ==
    /\ fetch[f].st = "open"
    /\ CommitR(FetchStep(RState, f, fetchOnClose([fetch[f] EXCEPT !.st = "closed"]), Now))
    /\ UNCHANGED <<now, localStorage>>

\* The call timeout of fetch f fires.
FetchTimeout(f) ==
    /\ fetch[f].timer
    /\ CommitR(FetchStep(RState, f, fetchTimeout(fetch[f]), Now))
    /\ UNCHANGED <<now, localStorage>>

\* An event of the socket of fetch f is dispatched after the closure has set
\* completed, whatever the state of the socket: the handler the code installed
\* for it runs.  late is the history of these events.
FetchLateEvent(f, e) ==
    /\ fetch[f].completed /\ Len(fetch[f].late) < MaxLate
    /\ LET F == [fetch[f] EXCEPT !.late = Append(@, e)]
       IN  CommitR(FetchStep(RState, f,
                             CASE e = "open" -> fetchOnOpen(F)
                               [] e = "error" -> fetchOnError(F)
                               [] OTHER -> fetchOnClose(F), Now))
    /\ UNCHANGED <<now, localStorage>>

\* Frame m is dispatched to ws.onmessage of fetch f after the closure has set
\* completed.
FetchLateMessage(f, m) ==
    /\ fetch[f].completed /\ Len(fetch[f].late) < MaxLate
    /\ CommitR(FetchStep(RState, f,
                         fetchOnMessage([fetch[f] EXCEPT !.late = Append(@, m.kind)], m), Now))
    /\ UNCHANGED <<now, localStorage>>

\* A caller invokes clearCache on an instance for resource id p.
ClearCache(p) ==
    /\ CommitR(clearCache(RState, p))
    /\ localStorage' = StorageRemove(localStorage, p)
    /\ UNCHANGED now

\* A caller invokes clearAllCache.
ClearAllCache ==
    /\ CommitR(clearAllCache(RState))
    /\ localStorage' = StorageRemovePrefixed(localStorage)
    /\ UNCHANGED now

\* Time passes.
Tick ==
    /\ now < MaxTicks
    /\ now' = now + 1
    /\ UNCHANGED <<writeWs, writeConnecting, writeTaskQueue, isProcessingQueue,
                   currentWriteResolver, sock, task, loop, lastSet, lastStarted, nextTask,
                   nextWs, closePending, thrown, globalCache, pendingRequests, fetch,
                   nextFetch, lastGet, lastStart, clean,
                   memoryCache, cacheConfig, localStorage, lastOp, hook>>

\* -------------------------------------------------------- cache actions

CommitC(C) ==
    /\ memoryCache' = C.mem
    /\ cacheConfig' = C.cfg
    /\ localStorage' = C.ls
    /\ UNCHANGED <<writeWs, writeConnecting, writeTaskQueue, isProcessingQueue,
                   currentWriteResolver, sock, task, loop, lastSet, lastStarted, nextTask,
                   nextWs, closePending, thrown, globalCache, pendingRequests, fetch,
                   nextFetch, now, lastGet, lastStart, clean, hook>>

\* History: what localStorage held under the key when get was called.
Found(st) ==
    CASE st.kind = "absent" -> "absent"
      [] st.kind = "garbage" -> "garbage"
      [] st.version # cacheConfig.version -> "mismatch"
      [] Now - st.timestamp > cacheConfig.localStorageExpiry -> "expired"
      [] OTHER -> "valid"

\* A caller invokes get(id) on the manager.
CacheGet(id) ==
    /\ CommitC(cacheGet(CState, id, Now).c)
    /\ lastOp' = [op |-> "get", id |-> id, ret |-> cacheGet(CState, id, Now).ret,
                  read |-> cacheGet(CState, id, Now).read,
                  afterSet |-> lastOp.op = "set" /\ lastOp.id = id,
                  was |-> Found(localStorage.msg[id]), uses |-> <<>>]

\* A caller invokes set(id, messages) on the manager.
CacheSet(id, messages) ==
    /\ CommitC(cacheSet(CState, id, messages, Now))
    /\ lastOp' = [NoOp EXCEPT !.op = "set", !.id = id, !.ret = messages]

\* A caller invokes clear(id) on the manager.
CacheClear(id) ==
    /\ CommitC(cacheClear(CState, id))
    /\ lastOp' = [NoOp EXCEPT !.op = "clear", !.id = id,
                              !.was = Found(localStorage.msg[id])]

\* A caller invokes clearAll() on the manager.
CacheClearAll ==
    /\ CommitC(cacheClearAll(CState))
    /\ lastOp' = [NoOp EXCEPT !.op = "clearAll"]

\* The page is loaded again: a manager with capacity n is constructed over
\* the localStorage the previous one left.
NewManager(n) ==
    /\ CommitC(newManager(localStorage, Config(n), Now))
    /\ lastOp' = [NoOp EXCEPT !.op = "new",
                              !.was = IF newManager(localStorage, Config(n), Now).ls = localStorage
                                      THEN "kept" ELSE "swept"]

\* The hook's own manager (useChatMessages.ts:30-36): version 1 and an expiry
\* of 30 minutes, six times the default one.
HookExpiry == 6 * Expiry

HookConfig(n) == [Config(n) EXCEPT !.localStorageExpiry = HookExpiry]

\* The hook constructs its manager.
HookManager ==
    /\ CommitC(newManager(localStorage, HookConfig(MaxCapacity), Now))
    /\ lastOp' = [NoOp EXCEPT !.op = "new"]

\* new XESCloudValue(projectId) (XesCloud.ts:265-270): the client constructs a
\* manager of its own, with the default configuration, over the same
\* localStorage; the manager the hook holds is not touched.
NewClient ==
    /\ CommitC([CState EXCEPT !.ls = newManager(localStorage, Config(MaxCapacity), Now).ls])
    /\ lastOp' = [NoOp EXCEPT !.op = "client"]

\* ------------------------------------- useChatMessages (useChatMessages.ts)

\* The message list of room r as the remote holds it: what getAllNum of a
\* client constructed for r resolves with.
DataOf(r) == IF r = 1 THEN "x" ELSE "y"

\* The hook with what it works on, as one value.
KState == [h |-> hook, c |-> CState, gc |-> globalCache]

\* A call in flight: the closure that awaits it (kind and the chatId of its
\* render) and the client it was made on.
Call(k, r, x) == [k |-> k, room |-> r, client |-> x]

\* The body of the hook runs again (lines 26-37): the argument of useRef is
\* evaluated, so a manager with the hook's configuration is constructed over
\* localStorage and dropped.
render(K) == [K EXCEPT !.c.ls = newManager(@, HookConfig(MaxCapacity), Now).ls]

\* setMessages(parseMessages(d)) called by a closure of room r (lines 75,
\* 116), and the render it causes.
setMessages(K, r, d) == render([K EXCEPT !.h.messages = d])

\* stopPolling (lines 45-50).
stopPolling(K) == [K EXCEPT !.h.pollingRef = 0]

\* cleanupResources (lines 52-58); clearCache of the client removes the
\* persisted entry and the TTL entry of its id (XesCloud.ts:547-550).
cleanupResources(K) ==
    LET K1 == stopPolling(K)
        x == K1.h.xRef
    IN  IF x # 0
        THEN [K1 EXCEPT !.c.ls = StorageRemove(@, x), !.gc = CacheDelete(@, x), !.h.xRef = 0]
        ELSE K1

\* fetchMessages of the render with chatId r (lines 60-80), up to its await.
fetchMessages(K, r) ==
    IF K.h.xRef = 0 THEN K
    ELSE LET g == cacheGet(K.c, r, Now)
         IN  IF g.ret # Null
             THEN setMessages([K EXCEPT !.c = g.c], r, g.ret)
             ELSE [K EXCEPT !.c = g.c, !.h.calls = @ \cup {Call("fetch", r, K.h.xRef)}]

\* startPolling of the render with chatId r (lines 82-97).
startPolling(K, r) ==
    LET K1 == cleanupResources(K)
        K2 == [K1 EXCEPT !.c.ls = newManager(@, Config(MaxCapacity), Now).ls, !.h.xRef = r]
    IN  [fetchMessages(K2, r) EXCEPT !.h.pollingRef = r]

\* The interval callback of the render with chatId r (lines 87-96), up to its
\* await.
pollTick(K, r) ==
    IF K.h.xRef = 0 THEN K
    ELSE [K EXCEPT !.h.calls = @ \cup {Call("tick", r, K.h.xRef)}]

\* sendMessage of the render with chatId r (lines 99-111), up to its await;
\* sendNum deletes the TTL entry of the client's id (XesCloud.ts:280).
sendMessage(K, r) ==
    IF K.h.xRef = 0 THEN K
    ELSE [K EXCEPT !.gc = CacheDelete(@, K.h.xRef),
                   !.h.calls = @ \cup {Call("send", r, K.h.xRef)}]

\* The promise call c awaits is resolved: the rest of the closure runs, up
\* to its next await (lines 72-75, 91-92, 113-114, 115-116).
callResolved(K, c) ==
    LET K0 == [K EXCEPT !.h.calls = @ \ {c}]
        d == DataOf(c.client)
        stored == [K0 EXCEPT !.c = cacheSet(@, c.room, d, Now)]
    IN  CASE c.k = "fetch" -> setMessages(stored, c.room, d)
          [] c.k = "tick" -> fetchMessages(stored, c.room)
          [] c.k = "send" ->
                LET K1 == [K0 EXCEPT !.c = cacheClear(@, c.room)]
                IN  IF K1.h.xRef = 0 THEN K1
                    ELSE [K1 EXCEPT !.h.calls = @ \cup {Call("refresh", c.room, K1.h.xRef)}]
          [] OTHER -> setMessages(stored, c.room, d)

\* The promise call c awaits is rejected: the catch block runs (lines 76-79,
\* 93-95, 120-123).
callRejected(K, c) == [K EXCEPT !.h.calls = @ \ {c}]

CommitK(K) ==
    /\ hook' = K.h
    /\ memoryCache' = K.c.mem
    /\ cacheConfig' = K.c.cfg
    /\ localStorage' = K.c.ls
    /\ globalCache' = K.gc
    /\ UNCHANGED <<writeWs, writeConnecting, writeTaskQueue, isProcessingQueue,
                   currentWriteResolver, sock, task, loop, lastSet, lastStarted, nextTask,
                   nextWs, closePending, thrown, pendingRequests, fetch,
                   nextFetch, now, lastGet, lastStart, clean, lastOp>>

CanCall(K) == Cardinality(K.h.calls) < MaxPending

\* The hook is rendered for the first time, with chatId r: its manager is
\* constructed and the effect starts polling.
Mount(r) ==
    /\ hook.chatId = 0
    /\ CommitK(startPolling([KState EXCEPT !.h.chatId = r,
                                           !.c = newManager(localStorage, HookConfig(MaxCapacity), Now)],
                            r))

\* The hook is rendered with another chatId: the cleanup of the effect stops
\* the interval, the effect starts polling for r (lines 39-43).
SelectRoom(r) ==
    /\ hook.chatId # 0 /\ r # hook.chatId
    /\ CanCall(KState)
    /\ CommitK(startPolling(stopPolling(render([KState EXCEPT !.h.chatId = r])), r))

\* The interval fires.
PollTick ==
    /\ hook.pollingRef # 0
    /\ CanCall(KState)
    /\ CommitK(pollTick(KState, hook.pollingRef))

\* The user sends a message: sendMessage of the latest render is called.
SendMessage ==
    /\ hook.chatId # 0
    /\ CanCall(KState)
    /\ CommitK(sendMessage(KState, hook.chatId))

\* The remote answers the call c.
CallResolved(c) ==
    /\ c \in hook.calls
    /\ CommitK(callResolved(KState, c))

\* The call c fails.
CallRejected(c) ==
    /\ c \in hook.calls
    /\ CommitK(callRejected(KState, c))

\* What another cache on the same localStorage (another tab, another release)
\* may leave under a key of the prefix.
ForeignValues ==
    {Garbage, Stringify("x", Now, OtherVersion)} \cup {Stringify(d, Now, Version) : d \in Datas}

\* Another cache writes st under STORAGE_PREFIX + id.
ForeignWrite(id, st) ==
    /\ CommitC([CState EXCEPT !.ls.msg[id] = st])
    /\ UNCHANGED lastOp

\* History of a bare LRUCache: the keys it should hold, least recently used
\* first, where a get hit and a set are uses.  Used(u, k) is the order after a
\* use of k; Kept(u, L) drops the keys L no longer holds.
Used(u, k) == Append(SelectSeq(u, LAMBDA x : x # k), k)

Kept(u, L) == SelectSeq(u, LAMBDA x : LRUHas(L, x))

\* The operations of a bare LRUCache, on every key.
LruNew(n) ==
    /\ CommitC([CState EXCEPT !.mem = NewLRU(n)])
    /\ lastOp' = [NoOp EXCEPT !.op = "lruNew"]

LruSet(k, v) ==
    /\ CommitC([CState EXCEPT !.mem = LRUSet(@, k, v)])
    /\ lastOp' = [NoOp EXCEPT !.op = "lruSet", !.id = k, !.ret = v,
                              !.uses = Kept(Used(lastOp.uses, k), LRUSet(memoryCache, k, v))]

LruGet(k) ==
    /\ CommitC([CState EXCEPT !.mem = LRUGet(memoryCache, k).lru])
    /\ lastOp' = [NoOp EXCEPT !.op = "lruGet", !.id = k, !.ret = LRUGet(memoryCache, k).ret,
                              !.uses = IF LRUGet(memoryCache, k).ret = NoData
                                       THEN lastOp.uses ELSE Used(lastOp.uses, k)]

LruDelete(k) ==
    /\ CommitC([CState EXCEPT !.mem = LRUDelete(@, k)])
    /\ lastOp' = [NoOp EXCEPT !.op = "lruDelete", !.id = k,
                              !.uses = Kept(lastOp.uses, LRUDelete(memoryCache, k))]

LruClear ==
    /\ CommitC([CState EXCEPT !.mem = LRUClear(@)])
    /\ lastOp' = [NoOp EXCEPT !.op = "lruClear"]

Pairs == [kind : {"pair"}, name : Names, value : Values]
Ctl(k) == [kind |-> k, name |-> NoVal, value |-> NoVal]

\* Every kind of frame: keepalive, ack, a frame of another shape, an
\* unparseable frame, and every pair.
AllFrames == {Ctl("ping"), Ctl("ack"), Ctl("other"), Ctl("garbage")} \cup Pairs

\* One enumeration walk, with every kind of inbound frame.
NextFetch ==
    \/ FetchOnceData(WPid)
    \/ \E f \in FetchIds : FetchOpen(f)
    \/ \E f \in FetchIds, m \in AllFrames : FetchMessage(f, m)
    \/ \E f \in FetchIds : FetchError(f)
    \/ \E f \in FetchIds : FetchClose(f)
    \/ \E f \in FetchIds : FetchTimeout(f)

SpecFetch == Init /\ [][NextFetch]_vars

\* One enumeration walk whose socket goes on dispatching events, in every
\* order, after the walk has settled.
NextLate ==
    \/ NextFetch
    \/ \E f \in FetchIds, e \in {"open", "error", "close"} : FetchLateEvent(f, e)
    \/ \E f \in FetchIds, m \in AllFrames : FetchLateMessage(f, m)

SpecLate == Init /\ [][NextLate]_vars

\* The frames of a walk over a resource that holds no entry: the coalescer
\* never looks at the data, only at how the walk ends.
FewFrames == {Ctl("ack")}

\* getAllNum callers, their enumerations, cache clearing and the clock.
NextRead ==
    \/ \E p \in Pids : GetAllNum(p)
    \/ \E f \in FetchIds : FetchOpen(f)
    \/ \E f \in FetchIds, m \in FewFrames : FetchMessage(f, m)
    \/ \E f \in FetchIds : FetchError(f)
    \/ \E f \in FetchIds : FetchClose(f)
    \/ \E f \in FetchIds : FetchTimeout(f)
    \/ \E p \in Pids : ClearCache(p)
    \/ ClearAllCache
    \/ Tick

SpecRead == Init /\ [][NextRead]_vars

\* What a remote that never lets the walk end may go on sending: keepalives,
\* acks and pairs.
EnumFrames ==
    {Ctl("ping"), Ctl("ack")} \cup {m \in Pairs : m.name \in {"A", "B"} /\ m.value = "1"}

\* getAllNum callers of one resource id and their enumerations.
NextEnum ==
    \/ GetAllNum(WPid)
    \/ \E f \in FetchIds : FetchOpen(f)
    \/ \E f \in FetchIds, m \in EnumFrames : FetchMessage(f, m)
    \/ \E f \in FetchIds : FetchError(f)
    \/ \E f \in FetchIds : FetchClose(f)
    \/ \E f \in FetchIds : FetchTimeout(f)

\* The timer armed by fetchOnceData fires unless it is cleared first.  Nothing
\* is assumed about the remote.
FairEnum == \A f \in FetchIds : WF_vars(FetchTimeout(f))

SpecEnumLive == Init /\ [][NextEnum]_vars /\ FairEnum

NextWrite ==
    \/ SendNum("v")
    \/ SendSomeNum(BatchKeys)
    \/ \E i \in LoopIds : LoopResume(i)
    \/ \E s \in WsIds : OnOpen(s)
    \/ \E s \in WsIds : ConnTimeout(s)
    \/ \E s \in WsIds : OnError(s)
    \/ \E s \in WsIds : OnClose(s)
    \/ \E s \in WsIds : ServerClosing(s)
    \/ \E s \in WsIds, f \in {"ackOK", "ackFail"} : RemoteAck(s, f)
    \/ \E s \in WsIds, f \in {"other", "garbage"} : RemoteFrame(s, f)
    \/ AckTimeout

SpecWrite == Init /\ [][NextWrite]_vars

\* The write channel with its scheduling: a continuation that is due runs,
\* an armed timer fires unless it is cleared first, and the close event owed
\* after an error is delivered.  Nothing is assumed about the remote.
FairWrite ==
    /\ \A i \in LoopIds : WF_vars(LoopResume(i))
    /\ \A s \in WsIds : WF_vars(ConnTimeout(s))
    /\ \A s \in WsIds : WF_vars(OnClose(s))
    /\ WF_vars(AckTimeout)

SpecWriteLive == SpecWrite /\ FairWrite

\* The two-tier message cache of one page, the clock, reloads of the page,
\* and the other caches that write the same localStorage.
NextCache ==
    \/ \E id \in Pids : CacheGet(id)
    \/ \E id \in Pids, d \in Datas : CacheSet(id, d)
    \/ \E id \in Pids : CacheClear(id)
    \/ CacheClearAll
    \/ \E n \in Capacities : NewManager(n)
    \/ \E id \in Pids, st \in ForeignValues : ForeignWrite(id, st)
    \/ Tick

SpecCache == Init /\ [][NextCache]_vars

\* The hook's manager and the clients constructed next to it, on one
\* localStorage.
NextShared ==
    \/ HookManager
    \/ \E id \in Pids : CacheGet(id)
    \/ \E id \in Pids, d \in Datas : CacheSet(id, d)
    \/ NewClient
    \/ Tick

SpecShared == Init /\ [][NextShared]_vars

Calls == [k : {"fetch", "tick", "send", "refresh"}, room : Pids, client : Pids]

\* The polling hook: room switches, poll ticks, sends, and the answers to the
\* calls in flight, in every order.
NextHook ==
    \/ \E r \in Pids : Mount(r)
    \/ \E r \in Pids : SelectRoom(r)
    \/ PollTick
    \/ SendMessage
    \/ \E c \in Calls : CallResolved(c)
    \/ \E c \in Calls : CallRejected(c)

SpecHook == Init /\ [][NextHook]_vars

\* A bare LRUCache.
NextLRU ==
    \/ \E n \in Capacities : LruNew(n)
    \/ \E k \in LruKeys, v \in Datas : LruSet(k, v)
    \/ \E k \in LruKeys : LruGet(k)
    \/ \E k \in LruKeys : LruDelete(k)
    \/ LruClear

SpecLRU == Init /\ [][NextLRU]_vars

\* Frames of the walk next to a keepalive: a ping, an ack and two pairs.
PingFrames == {Ctl("ping"), Ctl("ack")} \cup {[kind |-> "pair", name |-> n, value |-> "1"] : n \in {"A", "B"}}

\* Writes that are acknowledged and one enumeration walk, with the remote
\* sending pings on both sockets.
NextPing ==
    \/ SendNum("v")
    \/ \E i \in LoopIds : LoopResume(i)
    \/ \E s \in WsIds : OnOpen(s)
    \/ \E s \in WsIds : RemoteAck(s, "ackOK")
    \/ \E s \in WsIds : RemoteFrame(s, "ping")
    \/ AckTimeout
    \/ FetchOnceData(WPid)
    \/ \E f \in FetchIds : FetchOpen(f)
    \/ \E f \in FetchIds, m \in PingFrames : FetchMessage(f, m)
    \/ \E f \in FetchIds : FetchClose(f)

SpecPing == Init /\ [][NextPing]_vars

\* A client that writes and reads and is then cleaned up.
NextCleanup ==
    \/ SendNum("v")
    \/ \E i \in LoopIds : LoopResume(i)
    \/ \E s \in WsIds : OnOpen(s)
    \/ \E s \in WsIds : RemoteAck(s, "ackOK")
    \/ GetAllNum(WPid)
    \/ \E f \in FetchIds : FetchOpen(f)
    \/ \E f \in FetchIds : FetchClose(f)
    \/ ClearCache(WPid)
    \/ ClearAllCache

SpecCleanup == Init /\ [][NextCleanup]_vars

\* Callers of sendNum with a valid and with an empty value, next to a reader
\* of the same resource id that fills the TTL cache.
NextCalls ==
    \/ \E num \in {"", "v"} : SendNum(num)
    \/ \E i \in LoopIds : LoopResume(i)
    \/ \E s \in WsIds : OnOpen(s)
    \/ \E s \in WsIds : OnError(s)
    \/ \E s \in WsIds : OnClose(s)
    \/ \E s \in WsIds, f \in {"ackOK", "ackFail"} : RemoteAck(s, f)
    \/ GetAllNum(WPid)
    \/ \E f \in FetchIds : FetchOpen(f)
    \/ \E f \in FetchIds : FetchClose(f)
    \/ \E f \in FetchIds : FetchError(f)

SpecCalls == Init /\ [][NextCalls]_vars

\* A writer and a reader of the same resource id: sends that are acknowledged,
\* and getAllNum calls whose enumeration delivers a pair and is closed.
NextStale ==
    \/ SendNum("v")
    \/ \E i \in LoopIds : LoopResume(i)
    \/ \E s \in WsIds : OnOpen(s)
    \/ \E s \in WsIds : RemoteAck(s, "ackOK")
    \/ GetAllNum(WPid)
    \/ \E f \in FetchIds : FetchOpen(f)
    \/ \E f \in FetchIds : FetchMessage(f, [kind |-> "pair", name |-> "A", value |-> "1"])
    \/ \E f \in FetchIds : FetchClose(f)

SpecStale == Init /\ [][NextStale]_vars

\* ============================================================ properties

Active == {i \in LoopIds : loop[i].pc # "idle"}

QueueSorted == \A a, b \in 1..Len(writeTaskQueue) : a < b => writeTaskQueue[a] < writeTaskQueue[b]

SetAfter(x, y) == x.t > y.t \/ (x.t = y.t /\ x.k > y.k)

\* C1: the 'set' frames reach the wire in the order of the submitting calls
\* (task ids are given in call order): the queue is never reordered, the task
\* being executed is older than every queued one, tasks begin in call order and
\* every frame sent belongs to a later call (or a later key of the same batch)
\* than the frame sent before it.
C1_WritesInCallOrder ==
    /\ [](QueueSorted /\ \A i \in Active : \A a \in 1..Len(writeTaskQueue) :
                             loop[i].t <= writeTaskQueue[a])
    /\ [][/\ lastStarted' # lastStarted => lastStarted' > lastStarted
          /\ lastSet' # lastSet => SetAfter(lastSet', lastSet)]_vars

\* Two writes were submitted before the first settled; the first has been
\* acknowledged and the frame of the second is on the wire.
C1_Witness ==
    /\ lastSet.t = 2
    /\ task[1].handle = "resolved"
    /\ task[2].handle = "pending"

\* C2: at most one write request is outstanding: at most one activation of the
\* processing loop exists, an activation waiting for an ack is the registered
\* waiter, and doWrite never finds a waiter registered ("busy").
C2_OneOutstandingWrite ==
    /\ Cardinality(Active) <= 1
    /\ \A i \in LoopIds : loop[i].got # "busy"
    /\ \A i \in Active :
          (loop[i].pc = "awaitAck" /\ loop[i].got = "wait")
              => currentWriteResolver = [l |-> i, t |-> loop[i].t, k |-> loop[i].k]
    /\ isProcessingQueue = (Active # {})

\* One request is outstanding while another task waits in the queue.
C2_Witness ==
    /\ Len(writeTaskQueue) = 2
    /\ currentWriteResolver # NoReq
    /\ lastSet.t = writeTaskQueue[1]

\* A step in which a write socket reports an error or a close.
SocketDown ==
    \/ \E s \in WsIds : sock[s].state # "closed" /\ sock'[s].state = "closed"
    \/ closePending # 0 /\ closePending' = 0

\* C3: when a write socket reports an error or closes, the active waiter is
\* rejected, every task queued at that moment has its handle rejected, the
\* queue is empty afterwards and neither a write socket nor a pending dial is
\* recorded.
C3_DownDrainsQueue ==
    [][SocketDown =>
          /\ writeTaskQueue' = <<>>
          /\ writeWs' = 0
          /\ writeConnecting' = 0
          /\ currentWriteResolver' = NoReq
          /\ \A a \in 1..Len(writeTaskQueue) : task'[writeTaskQueue[a]].handle = "rejected"
          /\ currentWriteResolver # NoReq => loop'[currentWriteResolver.l].got = "closed"]_vars

\* The socket failed while a request was outstanding and a sibling was queued:
\* the waiter has been rejected and so has the sibling's handle.
C3_Witness ==
    /\ closePending # 0
    /\ \E i \in Active : /\ loop[i].got = "closed"
                         /\ \E t \in TaskIds : t # loop[i].t /\ task[t].handle = "rejected"

\* The continuation of activation i runs in this step.
Resumes(i) == Runnable(i) /\ loop'[i] # loop[i]

\* C4: when the continuation of a single send runs after a frame was delivered
\* to its waiter, the send's handle is resolved exactly when that frame was an
\* ack with reply OK (and is rejected otherwise).
C4_SendResolvesIffAckOK ==
    [][\A i \in LoopIds :
          (Resumes(i) /\ loop[i].pc = "awaitAck" /\ task[loop[i].t].kind = "send") =>
              /\ (task'[loop[i].t].handle = "resolved") = (loop[i].got = "ackOK")
              /\ task'[loop[i].t].handle # "pending"]_vars

\* C5: a sendNum call that throws for an empty value changes nothing else: no
\* socket is dialed, no task is enqueued, no frame is sent, and the TTL entry
\* of the resource id stays where it is.
C5_EmptyValueChangesNothing ==
    [][thrown' = thrown + 1 =>
          UNCHANGED <<writeWs, writeConnecting, writeTaskQueue, isProcessingQueue,
                      currentWriteResolver, sock, task, loop, lastSet, lastStarted,
                      nextTask, nextWs, closePending, globalCache, pendingRequests,
                      fetch, nextFetch, now, lastGet, lastStart, clean,
                      memoryCache, cacheConfig, localStorage, lastOp, hook>>]_vars

\* A send with an empty value was refused while the resource id had a TTL
\* entry and an earlier send was still queued.
C5_Witness == thrown = 1 /\ globalCache[WPid].has /\ writeTaskQueue # <<>>

\* ---- enumeration walk

Recorded(s, n) == \E i \in 1..Len(s) : s[i].name = n

FirstIndex(s, n) == CHOOSE i \in 1..Len(s) : s[i].name = n /\ \A j \in 1..(i - 1) : s[j].name # n

\* The result object that maps every name of s to the value of its first occurrence.
FirstOccurrence(s) ==
    [n \in Names |-> IF Recorded(s, n) THEN s[FirstIndex(s, n)].value ELSE NoVal]

Distinct(s) == \A i, j \in 1..Len(s) : i # j => s[i].name # s[j].name

Before(s) == SubSeq(s, 1, Len(s) - 1)

\* C6: a walk ends as "wrapped" exactly on the first pair whose name was
\* received before: until then every received name is new and the result maps
\* each to its value; on that pair the fetch resolves with the first-occurrence
\* map of the pairs before it and its socket is closed.
C6_StopsAtFirstDuplicate ==
    \A f \in FetchIds :
       LET F == fetch[f]
       IN  /\ F.end = "dup" =>
                  /\ F.rx # <<>>
                  /\ Recorded(Before(F.rx), F.rx[Len(F.rx)].name)
                  /\ Distinct(Before(F.rx))
                  /\ F.outcome = "resolved"
                  /\ F.st = "closed"
                  /\ F.result = FirstOccurrence(Before(F.rx))
           /\ F.end # "dup" => Distinct(F.rx) /\ F.result = FirstOccurrence(F.rx)

\* C7: a walk ended by its call timeout has resolved with the first-occurrence
\* map of the pairs received so far, and its socket is closed.
C7_TimeoutResolvesPartial ==
    \A f \in FetchIds :
       fetch[f].end = "timeout" =>
           /\ fetch[f].outcome = "resolved"
           /\ fetch[f].result = FirstOccurrence(fetch[f].rx)
           /\ fetch[f].st = "closed"

\* The timeout fired while the remote was still delivering new pairs.
C7_Witness == \E f \in FetchIds : fetch[f].end = "timeout" /\ Len(fetch[f].rx) = 2

\* C8: a walk ended by a socket error has rejected; a walk ended by a close
\* event without an error has resolved with the first-occurrence map of the
\* pairs received so far.
C8_ErrorRejectsCloseResolves ==
    \A f \in FetchIds :
       /\ fetch[f].end = "error" => fetch[f].outcome = "rejected"
       /\ fetch[f].end = "close" =>
              fetch[f].outcome = "resolved" /\ fetch[f].result = FirstOccurrence(fetch[f].rx)

\* The socket failed after pairs had been accumulated: they are discarded.
C8_Witness == \E f \in FetchIds : fetch[f].end = "error" /\ fetch[f].rx # <<>>

\* ---- request coalescer

HasStarted(p) == \E f \in FetchIds : fetch[f].via = "getAll" /\ fetch[f].pid = p

\* A getAllNum call for p starts an enumeration in this step.
Starts(p) == nextFetch' = nextFetch + 1 /\ pendingRequests'[p] = nextFetch

\* The previous getAllNum call that started an enumeration for p was made
\* less than CACHE_TTL ago.
InWindow(p) == HasStarted(p) /\ Now - lastStart[p] < CACHE_TTL

InFlight(p) ==
    {f \in FetchIds : fetch[f].via = "getAll" /\ fetch[f].pid = p /\ fetch[f].outcome = "pending"}

\* C10: the enumerations getAllNum started for a resource id and that have not
\* settled are exactly the one pendingRequests names (so at most one); while
\* there is one the TTL entry is not fresh, and a getAllNum call for that id
\* returns that one and starts nothing.
C10_GetAllJoinsInFlight ==
    /\ [](\A p \in Pids :
             /\ InFlight(p) = IF pendingRequests[p] = 0 THEN {} ELSE {pendingRequests[p]}
             /\ InFlight(p) # {} => ~CacheFresh(globalCache[p], Now))
    /\ [][\A p \in Pids :
             (lastGet' # lastGet /\ lastGet'.p = p /\ InFlight(p) # {}) =>
                 /\ lastGet'.how = "joined"
                 /\ lastGet'.f \in InFlight(p)
                 /\ fetch' = fetch
                 /\ nextFetch' = nextFetch]_vars

\* A second caller was handed the enumeration that is still in flight.
C10_Witness == lastGet.how = "joined" /\ fetch[lastGet.f].outcome = "pending"

\* The enumeration f that getAllNum started settles in this step.
Settles(f) ==
    fetch[f].via = "getAll" /\ fetch[f].outcome = "pending" /\ fetch'[f].outcome # "pending"

\* C11: when an enumeration started by getAllNum settles, the in-flight marker
\* of its resource id is cleared; on success the TTL entry of that id (and no
\* other) becomes the result stamped with the current time; on failure the
\* TTL cache is unchanged and holds no fresh entry for the id, the handle the
\* joined callers hold is rejected, and so the next getAllNum starts anew.
C11_SettleClearsMarker ==
    [][\A f \in FetchIds :
          Settles(f) =>
              LET p == fetch[f].pid
              IN  /\ pendingRequests'[p] = 0
                  /\ \A q \in Pids \ {p} : /\ pendingRequests'[q] = pendingRequests[q]
                                            /\ globalCache'[q] = globalCache[q]
                  /\ fetch'[f].outcome = "resolved" =>
                         globalCache'[p] = [has |-> TRUE, timestamp |-> Now, by |-> f]
                  /\ fetch'[f].outcome = "rejected" =>
                         /\ globalCache'[p] = globalCache[p]
                         /\ ~CacheFresh(globalCache'[p], Now)
                         /\ getAllNum(RState, p, Now).lastGet = [p |-> p, how |-> "joined", f |-> f]]_vars

\* After a failed enumeration the next getAllNum call for the id started a
\* second enumeration.
C11_Witness ==
    /\ lastGet.how = "started"
    /\ \E f \in FetchIds :
          /\ f # lastGet.f
          /\ fetch[f].pid = lastGet.p
          /\ fetch[f].via = "getAll"
          /\ fetch[f].outcome = "rejected"
    /\ fetch[lastGet.f].outcome = "pending"

\* A valid sendNum / sendSomeNum call is made in this step.
WriteCall == nextTask' = nextTask + 1

\* The pairs fetch f holds were all recorded before the latest write call.
EnumeratedBeforeWrite(f) == fetch[f].wr # 0 /\ fetch[f].wr < nextTask

\* C12: a valid write call deletes the TTL entry of its resource id in the
\* call itself, and a getAllNum call for that id made after a write call is
\* not answered from the TTL cache with pairs recorded before that call.
C12_WriteInvalidatesTTL ==
    [][/\ WriteCall => globalCache'[WPid] = NoEntry
       /\ (lastGet' # lastGet /\ lastGet'.p = WPid /\ lastGet'.how = "cache") =>
              ~EnumeratedBeforeWrite(lastGet'.f)]_vars

\* ---- two-tier message cache

\* C13: for every id and content X, in every state the manager can be in
\* (every capacity, every content of both tiers), set(id, X) followed by
\* get(id) returns X without reading the persisted tier; and every get that
\* directly follows a set of the same id did return what was set, from
\* memory, leaving localStorage alone.
C13_SetThenGetFromMemory ==
    /\ [](\A id \in Pids, X \in Datas :
             LET g == cacheGet(cacheSet(CState, id, X, Now), id, Now)
             IN  g.ret = X /\ ~g.read)
    /\ [][(lastOp.op = "set" /\ lastOp'.op = "get" /\ lastOp'.id = lastOp.id) =>
              /\ lastOp'.afterSet
              /\ lastOp'.ret = lastOp.ret
              /\ ~lastOp'.read
              /\ localStorage' = localStorage]_vars

\* A cache of capacity 0 answered a get right after a set with what was set,
\* although another writer had meanwhile replaced the persisted entry.
C13_Witness ==
    /\ lastOp.op = "get" /\ lastOp.afterSet /\ lastOp.ret = "y"
    /\ cacheConfig.memoryMaxSize = 0
    /\ localStorage.msg[lastOp.id].kind = "garbage"

\* This step is a get(id) call: it leaves the clock and the configuration
\* alone and at most removes keys from localStorage.
GetStep(id) ==
    /\ lastOp'.op = "get" /\ lastOp'.id = id
    /\ now' = now /\ cacheConfig' = cacheConfig
    /\ \A i \in Pids : localStorage'.msg[i] \in {localStorage.msg[i], Absent}

Mismatched(st) == st.kind = "entry" /\ st.version # cacheConfig.version

\* The get(id) of this step returned the data of the persisted entry of id.
FromStorage(id) == lastOp'.read /\ lastOp'.ret # Null

Age(st) == Now - st.timestamp

Expired(st) == st.kind = "entry" /\ Age(st) > cacheConfig.localStorageExpiry

\* C15 as stated: a get(id) called while the persisted entry of id is older
\* than the expiry does not return the content of that entry and removes it.
C15_ExpiredNeverReturned ==
    [][\A id \in Pids :
          (GetStep(id) /\ Expired(localStorage.msg[id])) =>
              /\ lastOp'.ret # localStorage.msg[id].data
              /\ localStorage'.msg[id] = Absent]_vars

\* C15, amended: get(id) never returns from the persisted tier an entry older
\* than the expiry: a get(id) that reaches the persisted tier (id is not in
\* memory) and finds such an entry reports absent and removes it, while an
\* entry of the configured version whose age equals the expiry is returned
\* and kept.  The memory tier has no expiry: a get(id) answered by it returns
\* the memory content whatever its age and leaves the persisted entry alone.
C15_ExpiredNeverServed ==
    [][\A id \in Pids :
          GetStep(id) =>
              LET st == localStorage.msg[id]
              IN  /\ FromStorage(id) => ~Expired(st)
                  /\ (Expired(st) /\ ~LRUHas(memoryCache, id)) =>
                         lastOp'.ret = Null /\ localStorage'.msg[id] = Absent
                  /\ (/\ st.kind = "entry" /\ ~Mismatched(st)
                      /\ Age(st) = cacheConfig.localStorageExpiry
                      /\ ~LRUHas(memoryCache, id)) =>
                         lastOp'.ret = st.data /\ localStorage'.msg[id] = st
                  /\ LRUHas(memoryCache, id) =>
                         lastOp'.ret = memoryCache.cache[id] /\ localStorage' = localStorage]_vars

\* A get found an entry of its own version that had outlived the expiry: it
\* answered absent and the key is gone.
C15_Witness ==
    /\ lastOp.op = "get" /\ lastOp.was = "expired" /\ lastOp.read
    /\ lastOp.ret = Null
    /\ localStorage.msg[lastOp.id] = Absent

\* ---- LRUCache

Present(L) == {k \in LruKeys : LRUHas(L, k)}

\* This step is a set(k, v) on the bare LRUCache.
SetStep(k) == lastOp'.op = "lruSet" /\ lastOp'.id = k /\ memoryCache'.maxSize = memoryCache.maxSize

\* C16: set of a new key on a cache that holds as many keys as its capacity
\* (and at least one) removes exactly one key, the one whose last use (a get
\* hit or a set) is the oldest; set of a new key below capacity and set of a
\* key already present remove nothing; in every case the key set holds the
\* new value and every other key left keeps its value.
C16_EvictsLeastRecentlyUsed ==
    [][\A k \in LruKeys :
          SetStep(k) =>
              LET old == Present(memoryCache)
                  new == Present(memoryCache')
              IN  /\ memoryCache'.cache[k] = lastOp'.ret
                  /\ \A j \in new \ {k} : memoryCache'.cache[j] = memoryCache.cache[j]
                  /\ (k \notin old /\ old # {} /\ Cardinality(old) >= memoryCache.maxSize) =>
                         new = (old \ {Head(lastOp.uses)}) \cup {k}
                  /\ (k \in old \/ Cardinality(old) < memoryCache.maxSize) =>
                         new = old \cup {k}]_vars

\* Capacity 2: after set(1), set(2), get(1), the set of key 3 evicted key 2
\* and kept 1 and 3.
C16_Witness ==
    /\ lastOp.op = "lruSet" /\ lastOp.id = 3
    /\ memoryCache.maxSize = 2
    /\ Present(memoryCache) = {1, 3}
    /\ lastOp.uses = <<1, 3>>

\* ---- MessageCacheManager.get, clear, clearAll

\* The persisted entry st can be served: it parses, it has the configured
\* version and its age is at most the expiry.
Valid(st) == st.kind = "entry" /\ ~Mismatched(st) /\ ~Expired(st)

\* C17: get(id) resolves the tiers in order.  With id in the memory tier it
\* returns the memory content, does not read the persisted tier and leaves it
\* as it is; otherwise, with a valid persisted entry of id, it returns the
\* data of that entry, keeps the entry, and id is in the memory tier with the
\* same data afterwards; otherwise it returns absent and the memory tier is
\* unchanged.
C17_TierOrder ==
    [][\A id \in Pids :
          GetStep(id) =>
              LET st == localStorage.msg[id]
              IN  /\ LRUHas(memoryCache, id) =>
                         /\ lastOp'.ret = memoryCache.cache[id]
                         /\ ~lastOp'.read
                         /\ localStorage' = localStorage
                  /\ (~LRUHas(memoryCache, id) /\ Valid(st)) =>
                         /\ lastOp'.ret = st.data
                         /\ lastOp'.read
                         /\ localStorage' = localStorage
                         /\ LRUHas(memoryCache', id)
                         /\ memoryCache'.cache[id] = st.data
                  /\ (~LRUHas(memoryCache, id) /\ ~Valid(st)) =>
                         /\ lastOp'.ret = Null
                         /\ memoryCache' = memoryCache]_vars

\* A get missed the memory tier, found a valid persisted entry and promoted
\* it: the id is in memory with the data returned.
C17_Witness ==
    /\ lastOp.op = "get" /\ lastOp.was = "valid" /\ lastOp.read
    /\ lastOp.ret \in Datas
    /\ LRUHas(memoryCache, lastOp.id)
    /\ memoryCache.cache[lastOp.id] = lastOp.ret

\* This step is a clear(id) / a clearAll() on the manager.
ClearStep(id) ==
    /\ lastOp'.op = "clear" /\ lastOp'.id = id
    /\ now' = now /\ cacheConfig' = cacheConfig
    /\ \A i \in Pids : localStorage'.msg[i] \in {localStorage.msg[i], Absent}

ClearAllStep ==
    /\ lastOp'.op = "clearAll"
    /\ now' = now /\ cacheConfig' = cacheConfig
    /\ \A i \in Pids : localStorage'.msg[i] \in {localStorage.msg[i], Absent}

\* C18: clear(id) removes id from the memory tier and from the persisted
\* tier and leaves the memory content and the persisted entry of every other
\* id, and the persisted keys outside the prefix, as they were; clearAll()
\* empties the memory tier and removes every persisted key that starts with
\* the prefix, and leaves the keys outside the prefix as they were.
C18_ClearFrame ==
    [][/\ \A id \in Pids :
             ClearStep(id) =>
                 /\ ~LRUHas(memoryCache', id)
                 /\ localStorage'.msg[id] = Absent
                 /\ \A j \in LruKeys \ {id} : memoryCache'.cache[j] = memoryCache.cache[j]
                 /\ \A j \in Pids \ {id} : localStorage'.msg[j] = localStorage.msg[j]
                 /\ localStorage'.other = localStorage.other
       /\ ClearAllStep =>
             /\ Present(memoryCache') = {}
             /\ memoryCache'.keys = <<>>
             /\ \A j \in Pids : localStorage'.msg[j] = Absent
             /\ localStorage'.other = localStorage.other]_vars

\* clear(id) met a persisted entry of id: id is gone from both tiers while
\* another id is still in both, and the key outside the prefix is in place.
C18_Witness ==
    /\ lastOp.op = "clear" /\ lastOp.was = "valid"
    /\ ~LRUHas(memoryCache, lastOp.id)
    /\ localStorage.msg[lastOp.id] = Absent
    /\ \E j \in Pids \ {lastOp.id} : LRUHas(memoryCache, j) /\ localStorage.msg[j].kind = "entry"
    /\ localStorage.other = "u"

\* ---- batch writes and failing tasks

\* This step is the continuation of activation i, whose wait for the ack of a
\* sub-request of a batch has timed out.
BatchTimeoutResume(i) ==
    /\ loop[i].pc = "awaitAck" /\ loop[i].got = "timeout"
    /\ task[loop[i].t].kind = "batch"
    /\ loop'[i] # loop[i]

\* This step sends a 'set' frame of a batch.
BatchFrameSent == lastSet' # lastSet /\ task[lastSet'.t].kind = "batch"

\* No activation is running task t.
NotRunning(lp, t) == \A j \in LoopIds : lp[j].pc = "idle" \/ lp[j].t # t

FailResume(i) ==
    /\ loop[i].pc = "awaitAck" /\ loop[i].got \in {"ackFail", "timeout"}
    /\ task[loop[i].t].kind = "send"
    /\ loop'[i] # loop[i]

Without(q, t) == SelectSeq(q, LAMBDA x : x # t)

\* This step delivers the ack at the head of the unanswered requests of
\* socket s to the registered waiter.
AckDelivered(s) ==
    /\ sock[s].unacked # <<>> /\ sock'[s].unacked = Tail(sock[s].unacked)
    /\ currentWriteResolver # NoReq /\ currentWriteResolver' = NoReq

\* C20: when a single write fails on an ack that is not OK or on a timed-out
\* wait, the tasks queued behind it stay queued in their order with their
\* handles as they were, the first of them is the task started next, and
\* what a task behind it is later settled by is its own outcome: the ack of
\* the request whose wait timed out is not delivered to the waiter of
\* another task.
C20_FailureSparesSiblings ==
    /\ [][\A i \in LoopIds :
             FailResume(i) =>
                 LET t == loop[i].t
                     rest == Without(writeTaskQueue, t)
                 IN  /\ writeTaskQueue' = rest
                     /\ \A u \in TaskIds : InSeq(u, rest) => task'[u].handle = task[u].handle
                     /\ rest # <<>> => lastStarted' = Head(rest) /\ isProcessingQueue']_vars
    /\ [][\A s \in WsIds :
             (AckDelivered(s) /\ Head(sock[s].unacked).l = 0) =>
                 Head(sock[s].unacked).t = currentWriteResolver.t]_vars

\* ---- inbound frames, connection attempts, timeouts

\* What may end the wait of a registered waiter: the ack of the remote, the
\* waiter's own timer, or the cleanup of the connection.
WaitEnds == {"ackOK", "ackFail", "timeout", "closed"}

\* C21 (write socket): a frame that does not parse or has another shape is
\* ignored: the waiter registered when it arrives stays registered, so every
\* step that unregisters a waiter hands its task one of the outcomes of
\* WaitEnds.
C21_MalformedFrameIgnored ==
    [][(currentWriteResolver # NoReq /\ currentWriteResolver' = NoReq) =>
           loop'[currentWriteResolver.l].got \in WaitEnds]_vars

\* The write sockets of the client that are dialing or open.
LiveSockets == {s \in WsIds : sock[s].state \in {"connecting", "open"}}

\* C22: at every instant at most one write socket of the client is dialing
\* or open, and a call of ensureWriteConnection made while a dial is in
\* progress dials no socket: it awaits the promise of that dial.
C22_OneWriteSocket ==
    /\ [](Cardinality(LiveSockets) <= 1)
    /\ [][writeConnecting # 0 =>
             /\ nextWs' = nextWs
             /\ \A i \in LoopIds :
                   (loop'[i].pc = "awaitConn" /\ loop[i].pc # "awaitConn" /\ writeConnecting' # 0)
                       => loop'[i].conn = writeConnecting]_vars

\* The connection attempt made with socket s has failed: its promise was
\* rejected by the connect timeout or by the socket's error event.
FailedAttempt(s) == sock[s].promise = "rejected"

\* This step runs an event handler of socket s.
SocketEvent(s) == sock'[s] # sock[s]

\* C23: the socket of a failed connection attempt never is the client's write
\* socket, its events never clear the marker of a newer attempt, and no ack
\* arriving on it is delivered to a waiter.
C23_FailedAttemptTornDown ==
    /\ [](\A s \in WsIds : FailedAttempt(s) => writeWs # s)
    /\ [][\A s \in WsIds :
             (FailedAttempt(s) /\ SocketEvent(s) /\ writeConnecting \notin {0, s}) =>
                 writeConnecting' = writeConnecting]_vars
    /\ [][\A s \in WsIds : AckDelivered(s) => ~FailedAttempt(s)]_vars

\* This step rejects the dial of socket s (by its connect timer; the error
\* event, the other cause, leaves the socket CLOSED).
DialRejected(s) == sock[s].promise = "pending" /\ sock'[s].promise = "rejected"

\* This step is the wait-for-ack timer of the waiter of activation i.
AckTimerFired(i) == loop[i].got = "wait" /\ loop'[i].got = "timeout"

\* C24 (write channel): when the connect timer of a dial fires the socket of
\* the dial is closed, and when the wait-for-ack timer of a write fires the
\* socket the request was sent on is closed; the waiter is settled.
C24_TimeoutClosesSocket ==
    /\ [][\A s \in WsIds : DialRejected(s) => s \notin LiveSockets']_vars
    /\ [][\A i \in LoopIds :
             AckTimerFired(i) =>
                 /\ loop[i].conn \notin LiveSockets'
                 /\ currentWriteResolver' = NoReq]_vars

\* The enumeration timeout closes the socket of the walk and settles its
\* handle.
EnumerationTimeoutCloses ==
    [][\A f \in FetchIds :
          (fetch[f].timer /\ ~fetch'[f].timer /\ fetch'[f].end = "timeout") =>
              /\ fetch'[f].st \notin {"connecting", "open"}
              /\ fetch'[f].outcome = "resolved"]_vars

\* ---- keepalive and handshakes

\* This step handles a ping on write socket s / on the socket of fetch f.
WritePing(s) == sock'[s].pings # sock[s].pings

ReadPing(f) == fetch'[f].ev = "ping" /\ fetch'[f] # fetch[f]

\* C25: a ping on the write socket is answered with one pong on that socket
\* and changes nothing else: the waiter stays registered, no handle is
\* settled, the queue and the other sockets are as before.  A ping on the
\* socket of a pending enumeration is answered with one pong and nothing
\* else is sent; the result, the handle and the socket are as before.
C25_PingPong ==
    /\ [](\A s \in WsIds : sock[s].pongs = sock[s].pings)
    /\ [][\A s \in WsIds :
             WritePing(s) =>
                 /\ sock' = [sock EXCEPT ![s].pings = @ + 1, ![s].pongs = @ + 1]
                 /\ UNCHANGED <<writeWs, writeConnecting, writeTaskQueue, isProcessingQueue,
                                currentWriteResolver, task, loop, lastSet, lastStarted,
                                nextTask, nextWs, closePending, fetch, globalCache,
                                pendingRequests>>]_vars
    /\ [][\A f \in FetchIds :
             ReadPing(f) =>
                 /\ fetch[f].outcome = "pending"
                 /\ fetch' = [fetch EXCEPT ![f].ev = "ping", ![f].tx = <<"pong">>]
                 /\ UNCHANGED <<sock, currentWriteResolver, task, loop, globalCache,
                                pendingRequests>>]_vars

\* A ping has been answered on a write socket while a write was waiting for
\* its ack, and the last frame of a pending walk that holds a pair was a ping.
C25_Witness ==
    /\ \E s \in WsIds : sock[s].pings = 1 /\ sock[s].pongs = 1 /\ sock[s].state = "open"
    /\ currentWriteResolver # NoReq
    /\ \E f \in FetchIds :
          /\ fetch[f].ev = "ping" /\ fetch[f].tx = <<"pong">>
          /\ fetch[f].outcome = "pending"
          /\ fetch[f].result["A"] = "1"

\* This step runs, for the pending walk f, the handler of event ev.
WalkEvent(f, ev) ==
    /\ fetch[f].outcome = "pending"
    /\ fetch'[f] # fetch[f]
    /\ fetch'[f].ev = ev

\* The pair handled last by walk f.
LastPair(F) == F.rx[Len(F.rx)]

\* C26: a walk sends one handshake when its socket opens, one for each ack
\* and one for each pair whose name is not recorded yet (the pair is then
\* recorded); it sends nothing but a pong for a ping, and nothing for the
\* pair of a recorded name, which ends the walk, and for any other frame.
C26_HandshakePerFrame ==
    [][\A f \in FetchIds :
          /\ WalkEvent(f, "open") => fetch'[f].tx = <<"handshake">>
          /\ WalkEvent(f, "ack") => fetch'[f].tx = <<"handshake">>
          /\ WalkEvent(f, "pair") =>
                 LET m == LastPair(fetch'[f])
                 IN  IF fetch[f].result[m.name] = NoVal
                     THEN /\ fetch'[f].tx = <<"handshake">>
                          /\ fetch'[f].result[m.name] = m.value
                          /\ fetch'[f].outcome = "pending"
                     ELSE /\ fetch'[f].tx = <<>>
                          /\ fetch'[f].outcome = "resolved"
          /\ WalkEvent(f, "ping") => fetch'[f].tx = <<"pong">>
          /\ \A ev \in {"other", "garbage"} : WalkEvent(f, ev) => fetch'[f].tx = <<>>]_vars

\* ---- cleanup of a client

\* This step is a clearCache() / clearAllCache() of the client that finds a
\* TTL entry of its resource id: the entry goes without a write being called.
CleanedUp ==
    /\ globalCache[WPid].has /\ ~globalCache'[WPid].has
    /\ nextTask' = nextTask

\* C27: once the client is cleaned up by clearCache() or clearAllCache(), no
\* write socket of it is dialing or open and it has no write socket.
C27_CleanupClosesWriteSocket ==
    [][CleanedUp => (LiveSockets' = {} /\ writeWs' = 0)]_vars

\* ---- construction of a MessageCacheManager

\* This step constructs a manager.
NewStep ==
    /\ lastOp'.op = "new"
    /\ now' = now
    /\ \A i \in Pids : localStorage'.msg[i] \in {localStorage.msg[i], Absent}

\* The persisted value st is an entry the manager of configuration cfg would
\* serve now.
ValidFor(st, cfg) ==
    /\ st.kind = "entry"
    /\ st.version = cfg.version
    /\ Now - st.timestamp <= cfg.localStorageExpiry

\* C28: right after a manager is constructed every key under the prefix is
\* absent or holds an entry that parses, has the version of the manager's
\* configuration and is not older than its expiry; an entry that was valid
\* before the construction, and the key outside the prefix, are unchanged.
C28_SweepOnConstruction ==
    [][NewStep =>
          /\ \A id \in Pids :
                /\ localStorage'.msg[id] = Absent \/ ValidFor(localStorage'.msg[id], cacheConfig')
                /\ ValidFor(localStorage.msg[id], cacheConfig') =>
                       localStorage'.msg[id] = localStorage.msg[id]
          /\ localStorage'.other = localStorage.other]_vars

\* A construction swept an entry away and kept a valid one.
C28_Witness ==
    /\ lastOp.op = "new" /\ lastOp.was = "swept"
    /\ \E id, j \in Pids :
          /\ localStorage.msg[id] = Absent
          /\ ValidFor(localStorage.msg[j], cacheConfig)
    /\ localStorage.other = "u"

\* ---- LRUCache invariants

\* The recency list of L holds every key of the map exactly once and no
\* other key.
KeysMatchMap(L) ==
    /\ \A a, b \in 1..Len(L.keys) : L.keys[a] = L.keys[b] => a = b
    /\ {L.keys[a] : a \in 1..Len(L.keys)} = Present(L)

\* C29: after any sequence of get / set / delete / clear on an LRUCache of
\* any capacity, the map holds at most maxSize entries and the recency list
\* is a duplicate-free ordering of exactly the keys of the map.
C29_LRUWithinCapacity ==
    /\ Cardinality(Present(memoryCache)) <= memoryCache.maxSize
    /\ KeysMatchMap(memoryCache)

\* The recency-list half of C29 alone.
RecencyListMatchesMap == KeysMatchMap(memoryCache)

\* The capacity half of C29 for the capacities of at least one.
WithinPositiveCapacity ==
    memoryCache.maxSize >= 1 => Cardinality(Present(memoryCache)) <= memoryCache.maxSize

\* ---- settlement of the write tasks

\* Task t leaves the queue in this step.
Dequeued(t) == InSeq(t, writeTaskQueue) /\ ~InSeq(t, writeTaskQueue')

\* Task t is the one an activation of processWriteQueue is executing.
Executing(t) == \E i \in LoopIds : loop[i].pc # "idle" /\ loop[i].t = t

\* The run has not used up the sockets the model provides.
SocketsLeft == nextWs <= MaxWs

\* C30: a task leaves the queue only when the loop has executed it or when
\* its handle is rejected, and the handle of every enqueued task is
\* eventually settled.
C30_EveryTaskSettles ==
    /\ [][\A t \in TaskIds :
             Dequeued(t) => (Executing(t) \/ task'[t].handle = "rejected")]_vars
    /\ \A t \in TaskIds :
          (task[t].handle = "pending") ~> (task[t].handle # "pending" \/ ~SocketsLeft)

\* The safety half of C30 alone.
DequeuedOnlyWhenDone ==
    [][\A t \in TaskIds :
          Dequeued(t) => (Executing(t) \/ task'[t].handle = "rejected")]_vars

\* The liveness half of C30 alone.
PendingLeadsToSettled ==
    \A t \in TaskIds :
        (task[t].handle = "pending") ~> (task[t].handle # "pending" \/ ~SocketsLeft)

\* ---- acks and their requests

\* C31: the OK ack that makes a write succeed answers that write's own
\* request: when an ack is handed to the registered waiter as OK, the request
\* it answers (the oldest unanswered one on the socket) is the request of
\* that waiter, never an earlier one whose wait has timed out.
C31_SuccessOnOwnAck ==
    [][\A s \in WsIds :
          (AckDelivered(s) /\ loop'[currentWriteResolver.l].got = "ackOK") =>
              /\ Head(sock[s].unacked).t = currentWriteResolver.t
              /\ Head(sock[s].unacked).k = currentWriteResolver.k
              /\ Head(sock[s].unacked).l # 0]_vars

\* ---- rejected tasks

\* This step sends a 'set' frame of task t.
SetSentFor(t) == lastSet' # lastSet /\ lastSet'.t = t

\* This step dials a socket for an activation that is executing task t.
DialedFor(t) ==
    /\ SocketsLeft /\ nextWs' = nextWs + 1
    /\ \E i \in LoopIds :
          loop'[i].pc = "awaitConn" /\ loop'[i].conn = nextWs /\ loop'[i].t = t

RejectedSendIsSilent ==
    [][\A t \in TaskIds :
          (task[t].handle = "rejected" /\ task[t].kind = "send") =>
              (~SetSentFor(t) /\ ~DialedFor(t))]_vars

\* ---- the queue and the task being executed

\* Activation i settles its task in this step: the task closure has returned
\* or thrown and the loop shifts the queue.
SettlesTask(i) ==
    /\ Resumes(i)
    /\ loop'[i].pc = "idle" \/ loop'[i].t # loop[i].t

\* C33: whenever the write queue is not empty a processing loop is active;
\* the task an activation is executing is the head of the queue; and the
\* entry removed when an activation settles its task is that task.
C33_ExecutingIsHead ==
    /\ [](writeTaskQueue # <<>> => (isProcessingQueue /\ Active # {}))
    /\ [](\A i \in Active : writeTaskQueue # <<>> /\ Head(writeTaskQueue) = loop[i].t)
    /\ [][\A i \in LoopIds : \A t \in TaskIds :
             (SettlesTask(i) /\ Dequeued(t)) => t = loop[i].t]_vars

\* The first part of C33 alone.
NonEmptyQueueHasLoop == writeTaskQueue # <<>> => (isProcessingQueue /\ Active # {})

\* The last part of C33 alone.
RemovesWhatItExecuted ==
    [][\A i \in LoopIds : \A t \in TaskIds :
          (SettlesTask(i) /\ Dequeued(t)) => t = loop[i].t]_vars

\* ---- events after an enumeration has settled

\* C34: an enumeration settles at most once, whatever the order in which the
\* events of its socket are dispatched: once its promise is resolved or
\* rejected, no handler settles it again (outcome and cause stay), no handler
\* sends a frame (handshake or pong), and the result it returned keeps its
\* entries.
C34_SettlesOnce ==
    [][\A f \in FetchIds :
          fetch[f].outcome \in {"resolved", "rejected"} =>
              /\ fetch'[f].outcome = fetch[f].outcome
              /\ fetch'[f].end = fetch[f].end
              /\ fetch'[f].result = fetch[f].result
              /\ fetch'[f].rx = fetch[f].rx
              /\ fetch'[f] # fetch[f] => fetch'[f].tx = <<>>]_vars

\* An enumeration that has recorded an entry and settled on a repeated name
\* was then handed a pair and the close event of its socket.
C34_Witness ==
    \E f \in FetchIds :
        /\ fetch[f].end = "dup" /\ fetch[f].outcome = "resolved"
        /\ \E n \in Names : fetch[f].result[n] # NoVal
        /\ fetch[f].late = <<"pair", "close">>

\* ---- termination of the enumerations

\* C35: every getAllNum call eventually settles, and the in-flight marker of
\* its resource id is eventually cleared, whatever the remote does, once the
\* timer of the enumeration is allowed to fire: every pending enumeration is
\* eventually resolved or rejected, and a set marker is eventually unset.
C35_GetAllTerminates ==
    /\ \A f \in FetchIds : (fetch[f].outcome = "pending") ~> (fetch[f].outcome # "pending")
    /\ \A p \in Pids : (pendingRequests[p] # 0) ~> (pendingRequests[p] = 0)

\* An enumeration started by getAllNum whose remote never accepted the
\* connection was ended by its timer, and the marker of its id is unset.
C35_Witness ==
    \E f \in FetchIds :
        /\ fetch[f].via = "getAll" /\ fetch[f].end = "timeout"
        /\ fetch[f].ev = "timeout" /\ fetch[f].rx = <<>>
        /\ lastGet.how # "none"
        /\ pendingRequests[fetch[f].pid] = 0

\* ---- reads after an acknowledged write

\* The single write t has been acknowledged with OK and its caller told so.
Acknowledged(t) == task[t].kind = "send" /\ task[t].handle = "resolved"

\* Enumeration f was started before write t was issued.
StartedBefore(f, t) == fetch[f].born # 0 /\ fetch[f].born <= t

\* This step is a getAllNum call for the writer's resource id.
GetAllCall == lastGet' # lastGet /\ lastGet'.p = WPid

\* C36: a getAllNum call made after a write was acknowledged is not answered
\* by an enumeration that was started before that write was issued: it does
\* not join one that is still in flight, and it is not served the TTL entry
\* one stored.
C36_ReadAfterAckIsFresh ==
    [][GetAllCall =>
          \A t \in TaskIds : Acknowledged(t) => ~StartedBefore(lastGet'.f, t)]_vars

\* The join half of C36 alone.
NoJoinOfOlderEnumeration ==
    [][(GetAllCall /\ lastGet'.how = "joined") =>
          \A t \in TaskIds : Acknowledged(t) => ~StartedBefore(lastGet'.f, t)]_vars

\* The TTL half of C36 alone.
NoOlderEnumerationFromTTL ==
    [][(GetAllCall /\ lastGet'.how = "cache") =>
          \A t \in TaskIds : Acknowledged(t) => ~StartedBefore(lastGet'.f, t)]_vars

\* ---- several managers on one localStorage

\* C37: an entry persisted by a manager stays readable through that
\* manager's persisted tier until its age exceeds the manager's expiry:
\* when a client is constructed, every persisted entry the hook's manager
\* would serve (its version, its age within its expiry) is left as it is.
C37_SurvivesOtherInstances ==
    [][(lastOp'.op = "client" /\ cacheConfig = HookConfig(MaxCapacity)) =>
          \A id \in Pids :
              ValidFor(localStorage.msg[id], cacheConfig) =>
                  /\ localStorage'.msg[id] = localStorage.msg[id]
                  /\ getFromLocalStorage(CState', id, Now).ret = localStorage.msg[id].data]_vars

\* ---- the polling hook and room switches

\* The content the cache holds under id is replaced in this step, in the
\* memory tier or in the persisted one.
StoredUnder(id) ==
    \/ /\ memoryCache'.cache[id] # memoryCache.cache[id]
       /\ memoryCache'.cache[id] # NoData
    \/ /\ localStorage'.msg[id] # localStorage.msg[id]
       /\ localStorage'.msg[id].kind = "entry"

\* C38: the list a step puts on display is the list of the room selected
\* then, and what a step stores in the cache under the id of the selected
\* room is the list of that room: a response of the room selected before is
\* neither displayed nor stored under the new room's id.
C38_ResponsesOfSelectedRoom ==
    [][/\ hook'.messages # hook.messages => hook'.messages = DataOf(hook'.chatId)
       /\ StoredUnder(hook'.chatId) =>
              /\ memoryCache'.cache[hook'.chatId] \in {NoData, DataOf(hook'.chatId)}
              /\ localStorage'.msg[hook'.chatId].kind = "entry" =>
                     localStorage'.msg[hook'.chatId].data = DataOf(hook'.chatId)]_vars

\* The display half of C38 alone.
DisplayedFromSelectedRoom ==
    [][hook'.messages # hook.messages => hook'.messages = DataOf(hook'.chatId)]_vars

\* The storage half of C38 alone.
StoredUnderSelectedIsOwn ==
    [][StoredUnder(hook'.chatId) =>
          /\ memoryCache'.cache[hook'.chatId] \in {NoData, DataOf(hook'.chatId)}
          /\ localStorage'.msg[hook'.chatId].kind = "entry" =>
                 localStorage'.msg[hook'.chatId].data = DataOf(hook'.chatId)]_vars

====
